---- MODULE Spec2Model ----
(***************************************************************************)
(* Model of the mark-ed editor core (slugcat-dev/mark-ed):                 *)
(*   - MarkdownParser.parse, the block-level line classifier               *)
(*     (src/src/markdown.ts) with the default line grammar                 *)
(*     (src/src/grammar.ts);                                               *)
(*   - Editor.updateDOM, the line reconciler that applies the parser's     *)
(*     output to the line elements of the editor root (src/src/editor.ts). *)
(*                                                                         *)
(* A text is a sequence of one-character strings.  A piece of HTML is a    *)
(* sequence of tokens: a one-character string for every character of text *)
(* and one string per tag or attribute that the grammar writes literally.  *)
(***************************************************************************)
EXTENDS Integers, Sequences, FiniteSets, TLC

VARIABLES
    mdLines,     \* MarkdownParser.lines: rendered HTML of every line
    lineTypes,   \* MarkdownParser.lineTypes: type tag of every line
    parseInput,  \* argument of the last parse call
    openLog,     \* parse's locals (openType, openMatch) after every iteration
    todo,        \* the documents a client of the parser hands to parse, in order
    done,        \* number of the parse calls of todo that were made
    lines,       \* Editor.lines
    dom,         \* innerHTML of every child of Editor.root, as last written
    before,      \* updateDOM's local before of the last call
    written,     \* indices whose innerHTML the last updateDOM assigned
    removed,     \* indices of the children the last updateDOM removed
    created,     \* indices (in after) of the elements the last updateDOM created
    heap,        \* the plain objects of the configuration: id -> list of <<key, value>>
    given,       \* the heap as the caller built it, before the constructor ran
    ctor,        \* the Editor constructor: its arguments and how it ended
    lookup,      \* the last call of line or lineAt: its argument and how it ended
    inline,      \* the last call of a function of the inline grammar: [fn, arg, out]
    state,       \* Editor.state: composing, compositionTime and selection
    undoStack,   \* Editor.undoStack: entries [lines, selection]
    redoStack,   \* Editor.redoStack
    linesRef,    \* the array that Editor.lines refers to: 0 for an array of
                 \* its own, k for the array of lines of undoStack[k]
    listening,   \* the event listeners on the root element and the document,
                 \* contenteditable, config.readonly and the listeners that
                 \* an event in dispatch has yet to call
    events,      \* the clock and what the event handlers did so far
    run          \* a parse call that is followed statement by statement

vars == <<mdLines, lineTypes, parseInput, openLog, todo, done,
          lines, dom, before, written, removed, created, heap, given, ctor, lookup,
          inline, state, undoStack, redoStack, linesRef, listening, events, run>>

parserVars == <<mdLines, lineTypes, parseInput, openLog>>
editorVars == <<lines, dom, before, written, removed, created>>
configVars == <<heap, given, ctor>>
queryVars == <<lookup, inline>>
sessionVars == <<state, undoStack, redoStack, linesRef, listening, events>>

(***************************************************************************)
(* Bounds.                                                                 *)
(***************************************************************************)
MaxLines == 3        \* longest document handed to parse by a parser client
MaxEditorLines == 3  \* longest document held by the editor
MaxOverrides == 2    \* most rules in the line grammar that a caller configures
MaxTextLen == 3      \* longest text handed to escapeHTML
MaxUrlTail == 3      \* most characters after the start of a link
MaxCodeLen == 7      \* most characters of a text given to InlineCode.match
MaxFormatLen == 5    \* most characters of a text given to the inline formatter
MaxEnters == 1       \* most presses of Enter in one session
MaxEvents == 3       \* most events delivered to the handlers of one editor
MaxClock == 2        \* most periods of more than 100 ms that pass
MaxRangeLen == 4     \* most lines on either side of the earlier updateDOM
MaxBackspaceLines == 2  \* most lines of an editor on which Backspace is pressed

(***************************************************************************)
(* JavaScript values.                                                      *)
(***************************************************************************)
null == "<null>"
undefined == "<undefined>"

\* a failed exec (null) and the `false` that a match, open or close returns
NoMatch == <<>>

\* neither line nor lineAt was called
NoLookup == [op |-> "none", arg |-> 0, error |-> "none", value |-> <<>>]

\* no function of the inline grammar was called on the text
NoInline(text) == [fn |-> "none", arg |-> text, out |-> <<>>]

\* Editor.state of an editor that got no event: the caret is at 0
NoState == [composing |-> FALSE, compositionTime |-> 0, selection |-> [start |-> 0, end |-> 0]]

\* no handler ran: the clock counts periods of more than 100 ms
NoEvents == [clock |-> 1, count |-> 0, last |-> "none", reads |-> 0, renders |-> 0,
             handled |-> 0, ignored |-> 0]

\* no parse call is followed
NoRun == [pc |-> "idle", lineNum |-> 0, input |-> <<>>,
          prev |-> [lines |-> <<>>, lineTypes |-> <<>>], seen |-> <<>>]

Min(S) == CHOOSE x \in S : \A y \in S : x <= y
Max2(a, b) == IF a >= b THEN a ELSE b
Min2(a, b) == IF a <= b THEN a ELSE b
Abs(a) == IF a < 0 THEN -a ELSE a

\* str[i] of a JavaScript string, 0-based; undefined outside of the string
At(str, i) == IF i >= 0 /\ i < Len(str) THEN str[i + 1] ELSE undefined

\* arr[i] of a JavaScript array of HTML strings, 0-based
undefinedLine == <<undefined>>
LineAt(arr, i) == IF i >= 0 /\ i < Len(arr) THEN arr[i + 1] ELSE undefinedLine

\* str.substring(i) on a sequence, i is 0-based
From(s, i) == SubSeq(s, i + 1, Len(s))

\* number of consecutive elements of s, starting at 0-based index i, that lie in C
RunLen(s, i, C) ==
    LET stop == {j \in i..(Len(s) - 1) : s[j + 1] \notin C}
    IN  IF stop = {} THEN Max2(Len(s) - i, 0) ELSE Min(stop) - i

Count(s, c) == Cardinality({j \in 1..Len(s) : s[j] = c})

\* String.prototype.replaceAll(pat, rep) with a string pattern
RECURSIVE ReplaceAll(_, _, _)
ReplaceAll(s, pat, rep) ==
    IF Len(s) < Len(pat) THEN s
    ELSE IF SubSeq(s, 1, Len(pat)) = pat
         THEN rep \o ReplaceAll(SubSeq(s, Len(pat) + 1, Len(s)), pat, rep)
         ELSE <<s[1]>> \o ReplaceAll(Tail(s), pat, rep)

(***************************************************************************)
(* Character classes of the regular expressions, on the modelled alphabet. *)
(***************************************************************************)
Space == {" ", "\t"}          \* \s and [\t ]
BT == "BT"                    \* the backtick character (U+0060)
Backtick == {BT}
Hash == {"#"}
Bullet == {"-", "+", "*"}
Digit == {"0", "1", "2", "3", "4", "5", "6", "7", "8", "9"}
EscapePunct == {"!", "\"", "#", "$", "%", "&", "'", "(", ")", "*", "+", ",", "-",
                ".", "/", ":", ";", "<", "=", ">", "?", "@", "[", "\\", "]", "^",
                "_", BT, "{", "|", "}", "~"}

(***************************************************************************)
(* src/src/markdown.ts: escapeHTML, fix, parseInline.                      *)
(***************************************************************************)
escapeHTML(str) ==
    ReplaceAll(
        ReplaceAll(
            ReplaceAll(str, <<"<">>, <<"&", "l", "t", ";">>),
            <<">">>, <<"&", "g", "t", ";">>),
        <<"&">>, <<"&", "a", "m", "p", ";">>)

\* fix without the placeholder of the empty line
fix_noPlaceholder(line) == escapeHTML(line)

fix(line) == IF Len(line) = 0 THEN <<"<br>">> ELSE escapeHTML(line)

\* defaultInlineGrammar.Escape: a backslash followed by one punctuation character
EscapeRule(result) ==
    IF Len(result) >= 2 /\ result[1] = "\\" /\ result[2] \in EscapePunct
    THEN <<"<span class=\"md-escape\">", "<span class=\"md-mark\">", "\\", "</span>">>
         \o escapeHTML(<<result[2]>>) \o <<"</span>">> \o From(result, 2)
    ELSE result

\* parseInline applies result.replace(rule.regex, ...) for every inline rule
\* in turn.  Of the rules with a regex, Autolink and Email need an "@" or a
\* ":" right after a leading "<" or a leading letter; fix has escaped every
\* "<" of the text and no modelled text contains "@".  A rule without a
\* regex searches for the text "undefined", which no modelled text contains.
parseInline(text) == EscapeRule(fix(text))

(***************************************************************************)
(* src/src/grammar.ts: the rules Autolink and URL of defaultInlineGrammar. *)
(* The expressions carry the flag i; the modelled texts are in lower case. *)
(***************************************************************************)
Letter == {"a", "b", "c", "d", "e", "f", "g", "h", "i", "j", "k", "l", "m", "n", "o",
           "p", "q", "r", "s", "t", "u", "v", "w", "x", "y", "z"}
Alnum == Letter \cup Digit                       \* [a-z\d]
SchemeChar == Alnum \cup {"+", ".", "-"}         \* [a-z\d+.-]
LinkEnd == Space \cup {"<", ">"}                 \* the complement of [^\s<>]
TrimChar == {"!", "\"", "'", "*", ",", ".", ":", ";", "?", "_", "~"}

\* number of characters of s from index i on that are not in C, up to the first in C
RunLenNot(s, i, C) ==
    LET stop == {j \in i..(Len(s) - 1) : s[j + 1] \in C}
    IN  IF stop = {} THEN Max2(Len(s) - i, 0) ELSE Min(stop) - i

\* [a-z\d](?:[a-z\d-]{0,61}[a-z\d])? at index p: the length matched, 0 for none
LabelLen(str, p) ==
    IF At(str, p) \notin Alnum THEN 0
    ELSE LET ks == {k \in 0..61 : /\ RunLen(str, p + 1, Alnum \cup {"-"}) >= k
                                  /\ At(str, p + 1 + k) \in Alnum}
         IN  IF ks = {} THEN 1 ELSE 2 + (CHOOSE k \in ks : \A q \in ks : q <= k)

\* (?:\.label)* at index p: the index after the last label
RECURSIVE LabelsEnd(_, _)
LabelsEnd(str, p) ==
    IF At(str, p) = "." /\ LabelLen(str, p + 1) > 0
    THEN LabelsEnd(str, p + 1 + LabelLen(str, p + 1))
    ELSE p

\* (?::\d{1,5})? at index p: the index after the port
PortEnd(str, p) ==
    IF At(str, p) = ":" /\ RunLen(str, p + 1, Digit) >= 1
    THEN p + 1 + Min2(RunLen(str, p + 1, Digit), 5)
    ELSE p

\* urlRegex.exec(str): <<match[1], match[2]>>, or NoMatch
URLRegex(str) ==
    LET proto == IF SubSeq(str, 1, Min2(7, Len(str))) = <<"h", "t", "t", "p", ":", "/", "/">>
                 THEN 7
                 ELSE IF SubSeq(str, 1, Min2(8, Len(str)))
                            = <<"h", "t", "t", "p", "s", ":", "/", "/">>
                      THEN 8 ELSE 0
        host == proto + LabelLen(str, proto)
        start == PortEnd(str, LabelsEnd(str, host))
        path == IF At(str, start) = "/" THEN 1 + RunLenNot(str, start + 1, LinkEnd) ELSE 0
    IN  IF proto > 0 /\ LabelLen(str, proto) > 0
        THEN <<SubSeq(str, 1, start), SubSeq(str, start + 1, start + path)>>
        ELSE NoMatch

\* count(char) of URL.match: the occurrences among the first end characters
CountTo(urlEnd, end, char) == Count(SubSeq(urlEnd, 1, end), char)

\* the trimming loop that removes every closing parenthesis at the end
RECURSIVE TrimEnd_everyParen(_, _)
TrimEnd_everyParen(urlEnd, end) ==
    LET last == At(urlEnd, end - 1)
    IN  IF last \in TrimChar \/ last = ")"
        THEN TrimEnd_everyParen(urlEnd, end - 1)
        ELSE end

\* the loop of URL.match that handles the special characters at the end:
\* the value of end when the loop breaks
RECURSIVE TrimEnd(_, _)
TrimEnd(urlEnd, end) ==
    LET last == At(urlEnd, end - 1)
    IN  IF last \in TrimChar
           \/ (last = ")" /\ CountTo(urlEnd, end, ")") > CountTo(urlEnd, end, "("))
        THEN TrimEnd(urlEnd, end - 1)
        ELSE end

\* URL.match(str): <<match[0]>>, or NoMatch for `false`
URLMatch(str) ==
    LET match == URLRegex(str)
    IN  IF match = NoMatch THEN NoMatch
        ELSE <<match[1] \o SubSeq(match[2], 1, TrimEnd(match[2], Len(match[2])))>>

\* URL.replace(match)
URLReplace(match) ==
    <<"<a href=\"">> \o escapeHTML(match[1]) \o <<"\">">> \o escapeHTML(match[1])
    \o <<"</a>">>

\* the first alternative of the expression of Autolink,
\* <([a-z][a-z\d+.-]{1,31}:[^\s<>]+)>: <<match[1], match[2]>>, or NoMatch.
\* The second alternative needs an @, which no modelled text holds; its
\* group match[2] is undefined in a match of the first alternative.
AutolinkMatch(str) ==
    LET r == RunLen(str, 2, SchemeChar)
        b == RunLenNot(str, 3 + r, LinkEnd)
    IN  IF /\ At(str, 0) = "<"
           /\ At(str, 1) \in Letter
           /\ r >= 1 /\ r <= 31
           /\ At(str, 2 + r) = ":"
           /\ b >= 1
           /\ At(str, 3 + r + b) = ">"
        THEN <<SubSeq(str, 2, 3 + r + b), <<undefined>> >>
        ELSE NoMatch

\* Autolink.replace(match)
AutolinkReplace(match) ==
    LET link == escapeHTML(match[1])
        href == (IF match[2] = <<"@">> THEN <<"m", "a", "i", "l", "t", "o", ":">> ELSE <<>>)
                \o ReplaceAll(link, <<"\"">>, <<"&", "q", "u", "o", "t", ";">>)
    IN  <<"<span class=\"md-autolink\">", "<span class=\"md-mark\">", "&", "l", "t", ";",
          "</span>", "<a href=\"">> \o href \o <<"\">">> \o link
        \o <<"</a>", "<span class=\"md-mark\">", "&", "g", "t", ";", "</span>", "</span>">>

(***************************************************************************)
(* src/src/grammar.ts: the rule InlineCode of defaultInlineGrammar.  A     *)
(* match is <<match[0], match[1], match[2]>>; NoMatch stands for false.    *)
(***************************************************************************)
\* while (pos < str.length && str[pos] === '`') pos++
RECURSIVE InlineCodeSize(_, _)
InlineCodeSize(str, pos) ==
    IF pos < Len(str) /\ At(str, pos) = BT
    THEN InlineCodeSize(str, pos + 1)
    ELSE pos

\* the loop with a closing run accepted as soon as it has the size of the
\* opening one, whatever follows it
RECURSIVE InlineCodeLoop_anyEnd(_, _, _, _)
InlineCodeLoop_anyEnd(str, size, pos, curSize) ==
    IF pos >= Len(str) THEN NoMatch
    ELSE IF At(str, pos) = BT
         THEN IF curSize + 1 = size
              THEN << SubSeq(str, 1, pos + 1),
                      SubSeq(str, size + 1, pos - size + 1),
                      SubSeq(str, 1, size) >>
              ELSE InlineCodeLoop_anyEnd(str, size, pos + 1, curSize + 1)
         ELSE InlineCodeLoop_anyEnd(str, size, pos + 1, 0)

\* for (; pos < str.length; pos++) { ... }; substring(a, b) is SubSeq(a + 1, b)
RECURSIVE InlineCodeLoop(_, _, _, _)
InlineCodeLoop(str, size, pos, curSize) ==
    IF pos >= Len(str) THEN NoMatch
    ELSE IF At(str, pos) = BT
         THEN IF curSize + 1 = size /\ At(str, pos + 1) # BT
              THEN << SubSeq(str, 1, pos + 1),
                      SubSeq(str, size + 1, pos - size + 1),
                      SubSeq(str, 1, size) >>
              ELSE InlineCodeLoop(str, size, pos + 1, curSize + 1)
         ELSE InlineCodeLoop(str, size, pos + 1, 0)

InlineCodeMatch(str) ==
    IF At(str, 0) # BT THEN NoMatch
    ELSE InlineCodeLoop(str, InlineCodeSize(str, 1), InlineCodeSize(str, 1), 0)

InlineCodeReplace(match) ==
    <<"<code class=\"md-code\">", "<span class=\"md-mark\">">> \o match[3]
        \o <<"</span>">> \o escapeHTML(match[2])
        \o <<"<span class=\"md-mark\">">> \o match[3] \o <<"</span>", "</code>">>

(***************************************************************************)
(* src/src/grammar.ts: the rule Escape and the delimiter rules of          *)
(* defaultInlineGrammar, and the inline formatter that applies the inline  *)
(* grammar to the text of a line.  The formatter is written after section  *)
(* 4.3 of the specification; the rules are those of grammar.ts.            *)
(***************************************************************************)
\* Escape.regex with every punctuation character but * in the class
EscapeMatch_noStar(str) ==
    IF Len(str) >= 2 /\ str[1] = "\\" /\ str[2] \in EscapePunct \ {"*"}
    THEN << SubSeq(str, 1, 2), <<str[2]>> >>
    ELSE NoMatch

\* Escape.regex: <<match[0], match[1]>>
EscapeMatch(str) ==
    IF Len(str) >= 2 /\ str[1] = "\\" /\ str[2] \in EscapePunct
    THEN << SubSeq(str, 1, 2), <<str[2]>> >>
    ELSE NoMatch

EscapeReplace(match) ==
    <<"<span class=\"md-escape\">", "<span class=\"md-mark\">", "\\", "</span>">>
        \o escapeHTML(match[2]) \o <<"</span>">>

\* the match rules of defaultInlineGrammar in the order of its keys; the
\* rule Email needs an "@", which no modelled text holds
MatchRules == <<"Escape", "Autolink", "InlineCode", "URL">>

InlineRuleMatch(name, str) ==
    CASE name = "Escape" -> EscapeMatch(str)
      [] name = "Autolink" -> AutolinkMatch(str)
      [] name = "InlineCode" -> InlineCodeMatch(str)
      [] name = "URL" -> URLMatch(str)

InlineRuleReplace(name, match) ==
    CASE name = "Escape" -> EscapeReplace(match)
      [] name = "Autolink" -> AutolinkReplace(match)
      [] name = "InlineCode" -> InlineCodeReplace(match)
      [] name = "URL" -> URLReplace(match)

\* match[0].length; the model of Autolink keeps match[1], which lacks < and >
InlineRuleLength(name, match) ==
    IF name = "Autolink" THEN Len(match[1]) + 2 ELSE Len(match[1])

\* the delimiter rules without StrongEmphasis
DelimiterRules_noStrong ==
    << [name |-> "Emphasis", delimiter |-> {"*", "_"}, length |-> 1, tag |-> "i"],
       [name |-> "Underline", delimiter |-> {"_"}, length |-> 2, tag |-> "u"],
       [name |-> "Strikethrough", delimiter |-> {"~"}, length |-> 2, tag |-> "s"] >>

\* the delimiter rules with a Strikethrough of one character
DelimiterRules_shortStrikethrough ==
    << [name |-> "Emphasis", delimiter |-> {"*", "_"}, length |-> 1, tag |-> "i"],
       [name |-> "StrongEmphasis", delimiter |-> {"*"}, length |-> 2, tag |-> "b"],
       [name |-> "Underline", delimiter |-> {"_"}, length |-> 2, tag |-> "u"],
       [name |-> "Strikethrough", delimiter |-> {"~"}, length |-> 1, tag |-> "s"] >>

\* the delimiter rules of defaultInlineGrammar in the order of its keys
DelimiterRules ==
    << [name |-> "Emphasis", delimiter |-> {"*", "_"}, length |-> 1, tag |-> "i"],
       [name |-> "StrongEmphasis", delimiter |-> {"*"}, length |-> 2, tag |-> "b"],
       [name |-> "Underline", delimiter |-> {"_"}, length |-> 2, tag |-> "u"],
       [name |-> "Strikethrough", delimiter |-> {"~"}, length |-> 2, tag |-> "s"] >>

DelimiterChars == UNION {DelimiterRules[k].delimiter : k \in 1..Len(DelimiterRules)}

OpenTag(tag) ==
    CASE tag = "i" -> "<i>" [] tag = "b" -> "<b>" [] tag = "u" -> "<u>" [] tag = "s" -> "<s>"

CloseTag(tag) ==
    CASE tag = "i" -> "</i>" [] tag = "b" -> "</b>" [] tag = "u" -> "</u>" [] tag = "s" -> "</s>"

\* the node without its closing tag
inlineReplace_unclosed(tag, delimiter, text) ==
    <<OpenTag(tag), "<span class=\"md-mark\">">> \o delimiter \o <<"</span>">> \o text
        \o <<"<span class=\"md-mark\">">> \o delimiter \o <<"</span>">>

\* the node without the delimiter in its closing mark
inlineReplace_noCloseMark(tag, delimiter, text) ==
    <<OpenTag(tag), "<span class=\"md-mark\">">> \o delimiter \o <<"</span>">> \o text
        \o <<"<span class=\"md-mark\">", "</span>", CloseTag(tag)>>

\* inline(tag)(delimiter, text)
inlineReplace(tag, delimiter, text) ==
    <<OpenTag(tag), "<span class=\"md-mark\">">> \o delimiter \o <<"</span>">> \o text
        \o <<"<span class=\"md-mark\">">> \o delimiter \o <<"</span>", CloseTag(tag)>>

Repeat(c, n) == [j \in 1..n |-> c]

\* the start and the end of the line count as white space
IsWhitespace(ch) == ch = undefined \/ ch \in Space
\* every character but white space taken for punctuation
IsPunctuation_anyVisible(ch) == ch # undefined /\ ch \notin Space

\* punctuation.test(ch): the characters of \p{S} and \p{P} among the modelled ones
IsPunctuation(ch) == ch \in EscapePunct

\* a run that is between the characters prev and next can open a node
CanOpenRun(prev, next) ==
    /\ ~IsWhitespace(next)
    /\ ~IsPunctuation(next) \/ IsWhitespace(prev) \/ IsPunctuation(prev)

CanCloseRun(prev, next) ==
    /\ ~IsWhitespace(prev)
    /\ ~IsPunctuation(prev) \/ IsWhitespace(next) \/ IsPunctuation(next)

\* a single underscore that could open and close opens only after
\* punctuation and closes only before punctuation
SingleUnderscore(c, n, prev, next) ==
    c = "_" /\ n = 1 /\ CanOpenRun(prev, next) /\ CanCloseRun(prev, next)

CanOpen(c, n, prev, next) ==
    IF SingleUnderscore(c, n, prev, next) THEN IsPunctuation(prev)
    ELSE CanOpenRun(prev, next)

CanClose(c, n, prev, next) ==
    IF SingleUnderscore(c, n, prev, next) THEN IsPunctuation(next)
    ELSE CanCloseRun(prev, next)

\* An entry of the stack is [char, len, buf, at]: the character, the
\* remaining length and the output buffered before the run, and the place
\* in the text (from 1) of the first remaining character of the run.
\* the entries stack[j..] and the output after them, as literal text
RECURSIVE Flush(_, _, _)
Flush(stack, j, out) ==
    IF j > Len(stack) THEN out
    ELSE stack[j].buf \o Repeat(stack[j].char, stack[j].len) \o Flush(stack, j + 1, out)

\* the delimiter rules for the character c that need at most n characters
Fitting(c, n) ==
    {k \in 1..Len(DelimiterRules) :
        c \in DelimiterRules[k].delimiter /\ DelimiterRules[k].length <= n}

Largest(fits) ==
    CHOOSE k \in fits : \A j \in fits : DelimiterRules[j].length <= DelimiterRules[k].length

\* consume from the entry e and from the run, of which r characters remain
\* from the place at, the largest declared length that both still have, and
\* wrap the output in the node of that rule, until no rule fits
RECURSIVE ConsumeLoop(_, _, _, _, _)
ConsumeLoop(e, out, nodes, r, at) ==
    IF Fitting(e.char, Min2(e.len, r)) = {}
    THEN [e |-> e, out |-> out, nodes |-> nodes, r |-> r, at |-> at]
    ELSE LET rule == DelimiterRules[Largest(Fitting(e.char, Min2(e.len, r)))]
             n == rule.length
         IN  ConsumeLoop([e EXCEPT !.len = e.len - n],
                         inlineReplace(rule.tag, Repeat(e.char, n), out),
                         nodes \cup {[rule |-> rule.name, len |-> n,
                                      open |-> e.at + e.len - n, close |-> at]},
                         r - n, at + n)

\* the places in the text of the characters that the entries stack[j..] still hold
RECURSIVE FlushedPlaces(_, _)
FlushedPlaces(stack, j) ==
    IF j > Len(stack) THEN {}
    ELSE (stack[j].at..(stack[j].at + stack[j].len - 1)) \cup FlushedPlaces(stack, j + 1)

\* The log of a call holds the nodes made of delimiters, the matches of
\* rules, and the places in the text of the delimiter characters that were
\* pushed on the stack and of those that were written as literal text, and
\* the number of passes of the loop over the text and of the closing loop.
EmptyLog == [nodes |-> {}, matches |-> {}, pushed |-> {}, flushed |-> {}, steps |-> 0]

\* the closing work that leaves the skipped entries on the stack
RECURSIVE CloseLoop_keepSkipped(_, _, _, _, _, _)
CloseLoop_keepSkipped(c, out, stack, log, r, at) ==
    IF r = 0 \/ \A j \in 1..Len(stack) : stack[j].char # c
    THEN [out |-> out, stack |-> stack, log |-> log, r |-> r, at |-> at]
    ELSE LET j == CHOOSE i \in 1..Len(stack) :
                      /\ stack[i].char = c
                      /\ \A h \in (i + 1)..Len(stack) : stack[h].char # c
             res == ConsumeLoop(stack[j], out, log.nodes, r, at)
             log2 == [log EXCEPT !.nodes = res.nodes, !.steps = @ + 1]
             above == SubSeq(stack, j + 1, Len(stack))
         IN  IF res.e.len = 0
             THEN CloseLoop_keepSkipped(c, stack[j].buf \o res.out,
                                        SubSeq(stack, 1, j - 1) \o above,
                                        log2, res.r, res.at)
             ELSE [out |-> res.out,
                   stack |-> Append(SubSeq(stack, 1, j - 1), res.e) \o above,
                   log |-> log2, r |-> res.r, at |-> res.at]

\* the closing work of a run of the character c
RECURSIVE CloseLoop(_, _, _, _, _, _)
CloseLoop(c, out, stack, log, r, at) ==
    IF r = 0 \/ \A j \in 1..Len(stack) : stack[j].char # c
    THEN [out |-> out, stack |-> stack, log |-> log, r |-> r, at |-> at]
    ELSE LET j == CHOOSE i \in 1..Len(stack) :
                      /\ stack[i].char = c
                      /\ \A h \in (i + 1)..Len(stack) : stack[h].char # c
             res == ConsumeLoop(stack[j], Flush(stack, j + 1, out), log.nodes, r, at)
             log2 == [log EXCEPT !.nodes = res.nodes, !.steps = @ + 1,
                                 !.flushed = @ \cup FlushedPlaces(stack, j + 1)]
         IN  IF res.e.len = 0
             THEN CloseLoop(c, stack[j].buf \o res.out, SubSeq(stack, 1, j - 1),
                            log2, res.r, res.at)
             ELSE [out |-> res.out, stack |-> Append(SubSeq(stack, 1, j - 1), res.e),
                   log |-> log2, r |-> res.r, at |-> res.at]

\* the index in MatchRules of the first rule that matches str, or 0
FirstMatch(str) ==
    IF \A k \in 1..Len(MatchRules) : InlineRuleMatch(MatchRules[k], str) = NoMatch THEN 0
    ELSE Min({k \in 1..Len(MatchRules) : InlineRuleMatch(MatchRules[k], str) # NoMatch})

\* the end of the line: the entries left on the stack become literal text
Drain(out, stack, log) ==
    [html |-> IF Flush(stack, 1, out) = <<>> THEN <<"<br>">> ELSE Flush(stack, 1, out),
     stack |-> <<>>,
     nodes |-> log.nodes, matches |-> log.matches, pushed |-> log.pushed,
     flushed |-> log.flushed \cup FlushedPlaces(stack, 1), steps |-> log.steps]

\* the formatter from the position pos (from 0) of the text on
RECURSIVE FormatLoop(_, _, _, _, _)
FormatLoop(text, pos, out, stack, log) ==
    IF pos >= Len(text) THEN Drain(out, stack, log)
    ELSE IF FirstMatch(From(text, pos)) # 0
    THEN LET name == MatchRules[FirstMatch(From(text, pos))]
             match == InlineRuleMatch(name, From(text, pos))
         IN  FormatLoop(text, pos + InlineRuleLength(name, match),
                        out \o InlineRuleReplace(name, match), stack,
                        [log EXCEPT !.steps = @ + 1, !.matches = @ \cup
                            {[rule |-> name, at |-> pos + 1,
                              len |-> InlineRuleLength(name, match),
                              html |-> InlineRuleReplace(name, match)]}])
    ELSE IF text[pos + 1] \in DelimiterChars
    THEN LET c == text[pos + 1]
             n == RunLen(text, pos, {c})
             prev == At(text, pos - 1)
             next == At(text, pos + n)
             closed == IF CanClose(c, n, prev, next)
                       THEN CloseLoop(c, out, stack, log, n, pos + 1)
                       ELSE [out |-> out, stack |-> stack, log |-> log,
                             r |-> n, at |-> pos + 1]
             rest == closed.at..(closed.at + closed.r - 1)
         IN  IF closed.r > 0 /\ CanOpen(c, n, prev, next)
             THEN FormatLoop(text, pos + n, <<>>,
                             Append(closed.stack, [char |-> c, len |-> closed.r,
                                                   buf |-> closed.out, at |-> closed.at]),
                             [closed.log EXCEPT !.steps = @ + 1, !.pushed = @ \cup rest])
             ELSE FormatLoop(text, pos + n, closed.out \o Repeat(c, closed.r),
                             closed.stack,
                             [closed.log EXCEPT !.steps = @ + 1, !.flushed = @ \cup rest])
    ELSE FormatLoop(text, pos + 1, out \o escapeHTML(<<text[pos + 1]>>), stack,
                    [log EXCEPT !.steps = @ + 1])

formatInline(text) == FormatLoop(text, 0, <<>>, <<>>, EmptyLog)

(***************************************************************************)
(* src/src/grammar.ts: defaultLineGrammar.  A match is the sequence of the *)
(* capture groups match[1], match[2], ...; NoMatch stands for a failed     *)
(* exec (null) and for the `false` of a block rule.                        *)
(***************************************************************************)
\* /^(\s*)((?:(?:\*\s*){3,})|(?:(?:-\s*){3,})|(?:(?:_\s*){3,}))(\s*)$/
ThematicBreakMatch(line) ==
    LET n == RunLen(line, 0, Space)
        rest == From(line, n)
        ok(c) == /\ Len(rest) > 0
                 /\ rest[1] = c
                 /\ \A j \in 1..Len(rest) : rest[j] \in ({c} \cup Space)
                 /\ Count(rest, c) >= 3
    IN  IF ok("*") \/ ok("-") \/ ok("_")
        THEN <<SubSeq(line, 1, n), rest, <<>> >>
        ELSE NoMatch

ThematicBreakReplace(match) ==
    <<"<span class=\"md-hr\">">> \o match[1] \o <<"<span class=\"md-mark\">">>
    \o match[2] \o <<"</span>">> \o match[3] \o <<"</span>">>

\* the optional end of a heading: /(?:\s+#+\s*)?$/ applied to all of u
HeadingEnd(u) ==
    LET w == RunLen(u, 0, Space)
        h == RunLen(u, w, Hash)
    IN  Len(u) = 0 \/ (w >= 1 /\ h >= 1 /\ RunLen(u, w + h, Space) = Len(u) - w - h)

\* /^([\t ]*)(#{1,6} )(.*?)((?:\s+#+\s*)?)$/
ATXHeadingMatch(line) ==
    LET n == RunLen(line, 0, Space)
        h == RunLen(line, n, Hash)
        t == From(line, n + h + 1)
        p == Min({q \in 0..Len(t) : HeadingEnd(From(t, q))})
    IN  IF h >= 1 /\ h <= 6 /\ At(line, n + h) = " "
        THEN <<SubSeq(line, 1, n), SubSeq(line, n + 1, n + h + 1), SubSeq(t, 1, p), From(t, p)>>
        ELSE NoMatch

HOpen(level) ==
    <<"<h1 class=\"md-heading\" style=\"display: inline\">",
      "<h2 class=\"md-heading\" style=\"display: inline\">",
      "<h3 class=\"md-heading\" style=\"display: inline\">",
      "<h4 class=\"md-heading\" style=\"display: inline\">",
      "<h5 class=\"md-heading\" style=\"display: inline\">",
      "<h6 class=\"md-heading\" style=\"display: inline\">">>[level]

HClose(level) == <<"</h1>", "</h2>", "</h3>", "</h4>", "</h5>", "</h6>">>[level]

ATXHeadingReplace(match) ==
    LET mark == match[2]
        level == Len(mark) - 1
        end == IF Len(match[4]) > 0
               THEN <<"<span class=\"md-mark\">">> \o match[4] \o <<"</span>">>
               ELSE <<>>
    IN  match[1] \o <<HOpen(level), "<span class=\"md-mark\">">> \o mark \o <<"</span>">>
        \o parseInline(match[3]) \o end \o <<HClose(level)>>

\* CodeBlock.open: /^([\t ]*)(BT{3,})(\s*)([^\sBT]*)([^BT]*)$/
CodeBlockOpenMatch(line) ==
    LET n == RunLen(line, 0, Space)
        r == RunLen(line, n, Backtick)
        tail == From(line, n + r)
        s == RunLen(tail, 0, Space)
        l == RunLen(tail, s, {c \in {tail[j] : j \in 1..Len(tail)} : c \notin Space \cup Backtick})
    IN  IF r >= 3 /\ Count(tail, BT) = 0
        THEN <<SubSeq(line, 1, n), SubSeq(line, n + 1, n + r), SubSeq(tail, 1, s),
               SubSeq(tail, s + 1, s + l), From(tail, s + l)>>
        ELSE NoMatch

CodeBlockOpenReplacement(match) ==
    LET lang == IF Len(match[4]) > 0
                THEN <<"<span class=\"md-code-lang\">">> \o escapeHTML(match[4]) \o <<"</span>">>
                ELSE <<>>
    IN  <<"<code class=\"md-code-block md-open\">">> \o match[1] \o <<"<span class=\"md-mark\">">>
        \o match[2] \o match[3] \o lang \o escapeHTML(match[5]) \o <<"</span>", "</code>">>

\* CodeBlock.line
CodeBlockLine(line) ==
    <<"<code class=\"md-code-block\">">> \o fix(line) \o <<"</code>">>

\* CodeBlock.close with the fixed minimum of the opening expression
CodeBlockCloseMatch_three(line, openMatch) ==
    LET n == RunLen(line, 0, Space)
        r == RunLen(line, n, Backtick)
    IN  IF r >= 3 /\ RunLen(line, n + r, Space) = Len(line) - n - r
        THEN <<SubSeq(line, 1, n), SubSeq(line, n + 1, n + r), From(line, n + r)>>
        ELSE NoMatch

\* the regular expression of CodeBlock.close: RegExp(/^(\s*)(BT{N,})(\s*)$/),
\* N the length of the opening mark
CodeBlockCloseMatch(line, openMatch) ==
    LET openMark == openMatch[2]
        n == RunLen(line, 0, Space)
        r == RunLen(line, n, Backtick)
    IN  IF r >= Len(openMark) /\ RunLen(line, n + r, Space) = Len(line) - n - r
        THEN <<SubSeq(line, 1, n), SubSeq(line, n + 1, n + r), From(line, n + r)>>
        ELSE NoMatch

\* CodeBlock.close: the HTML of the closing line, or NoMatch for `false`
CodeBlockClose(line, openMatch) ==
    LET match == CodeBlockCloseMatch(line, openMatch)
    IN  IF match = NoMatch THEN NoMatch
        ELSE <<"<code class=\"md-code-block md-close\">">> \o match[1]
             \o <<"<span class=\"md-mark\">">> \o match[2] \o <<"</span>">> \o match[3]
             \o <<"</code>">>

\* /^([\t ]*)(> ?)(.*)/
BlockQuoteMatch(line) ==
    LET n == RunLen(line, 0, Space)
        m == IF At(line, n + 1) = " " THEN 2 ELSE 1
    IN  IF At(line, n) = ">"
        THEN <<SubSeq(line, 1, n), SubSeq(line, n + 1, n + m), From(line, n + m)>>
        ELSE NoMatch

BlockQuoteReplace(match) ==
    <<"<span class=\"md-quote\">">> \o match[1] \o <<"<span class=\"md-mark\">">>
    \o escapeHTML(match[2]) \o <<"</span>">> \o parseInline(match[3]) \o <<"</span>">>

\* /^([\t ]*)([-+*] \[[x ]\] )(.*)/i
TaskListMatch(line) ==
    LET n == RunLen(line, 0, Space)
    IN  IF /\ At(line, n) \in Bullet
           /\ At(line, n + 1) = " "
           /\ At(line, n + 2) = "["
           /\ At(line, n + 3) \in {"x", "X", " "}
           /\ At(line, n + 4) = "]"
           /\ At(line, n + 5) = " "
        THEN <<SubSeq(line, 1, n), SubSeq(line, n + 1, n + 6), From(line, n + 6)>>
        ELSE NoMatch

TaskListReplace(match) ==
    LET mark == match[2]
        checkbox == <<"<span class=\"md-checkbox\" contenteditable=\"false\">",
                      "<input type=\"checkbox\" tabindex=\"-1\" aria-hidden=\"true\"", " ">>
                    \o (IF mark[4] = " " THEN <<>> ELSE <<"checked">>)
                    \o <<">", "</span>">>
    IN  match[1] \o <<"<span class=\"md-task\">">> \o checkbox
        \o <<"<span class=\"md-mark\">", mark[1], " ", "[", "<span class=\"md-checkmark\">",
             mark[4], "</span>", "]", "</span>", "</span>", " ">>
        \o parseInline(match[3])

\* /^[\t ]*[-+*] .*/ ; the only group used is match[0], the whole line
UnorderedListMatch(line) ==
    LET n == RunLen(line, 0, Space)
    IN  IF At(line, n) \in Bullet /\ At(line, n + 1) = " " THEN <<line>> ELSE NoMatch

UnorderedListReplace(match) == parseInline(match[1])

\* /^[\t ]*\d+[).] .*/ ; the only group used is match[0], the whole line
OrderedListMatch(line) ==
    LET n == RunLen(line, 0, Space)
        d == RunLen(line, n, Digit)
    IN  IF d >= 1 /\ At(line, n + d) \in {")", "."} /\ At(line, n + d + 1) = " "
        THEN <<line>> ELSE NoMatch

OrderedListReplace(match) == parseInline(match[1])

\* the keys of defaultLineGrammar in iteration order
LineGrammarKeys ==
    <<"ThematicBreak", "ATXHeading", "CodeBlock", "BlockQuote", "TaskList",
      "UnorderedList", "OrderedList">>

\* 'regex' in rule
HasRegex(type) == type # "CodeBlock"

\* rule.regex.exec(line)
RegexExec(type, line) ==
    CASE type = "ThematicBreak" -> ThematicBreakMatch(line)
      [] type = "ATXHeading"    -> ATXHeadingMatch(line)
      [] type = "BlockQuote"    -> BlockQuoteMatch(line)
      [] type = "TaskList"      -> TaskListMatch(line)
      [] type = "UnorderedList" -> UnorderedListMatch(line)
      [] type = "OrderedList"   -> OrderedListMatch(line)

\* rule.replace(match) of a rule with a regex
RuleReplace(type, match) ==
    CASE type = "ThematicBreak" -> ThematicBreakReplace(match)
      [] type = "ATXHeading"    -> ATXHeadingReplace(match)
      [] type = "BlockQuote"    -> BlockQuoteReplace(match)
      [] type = "TaskList"      -> TaskListReplace(match)
      [] type = "UnorderedList" -> UnorderedListReplace(match)
      [] type = "OrderedList"   -> OrderedListReplace(match)

\* rule.open(line) of a block rule: the match, or NoMatch for `false`
RuleOpen(type, line) == CodeBlockOpenMatch(line)

\* open.replacement
RuleOpenReplacement(type, match) == CodeBlockOpenReplacement(match)

\* rule.close(line, openMatch) of a block rule
RuleClose(type, line, openMatch) == CodeBlockClose(line, openMatch)

\* the rendering of a line inside of an open block
RuleLine(type, line) == CodeBlockLine(line)

(***************************************************************************)
(* src/src/markdown.ts: MarkdownParser.parse.                              *)
(***************************************************************************)
\* no block is open
NoOpen == [openType |-> null, openMatch |-> NoMatch]

\* the result of one iteration of the loop over the lines
Iteration(lineType, html, openType, openMatch) ==
    [lineType |-> lineType, html |-> html, openType |-> openType, openMatch |-> openMatch]

\* a line that no rule matches gets a paragraph tag
Unmatched_paragraph(html) == Iteration("Paragraph", html, null, NoMatch)

\* a line that no rule matches keeps the initial values of the iteration:
\* lineType = null and html = parseInline(line)
Unmatched(html) == Iteration(null, html, null, NoMatch)

\* the loop over the rules without the break: the last matching rule wins
ScanRules_lastMatch(line, k, html) ==
    LET hit(j) == IF HasRegex(LineGrammarKeys[j])
                  THEN RegexExec(LineGrammarKeys[j], line) # NoMatch
                  ELSE RuleOpen(LineGrammarKeys[j], line) # NoMatch
        ks == {j \in k..Len(LineGrammarKeys) : hit(j)}
        type == LineGrammarKeys[CHOOSE j \in ks : \A q \in ks : q <= j]
    IN  IF ks = {} THEN Unmatched(html)
        ELSE IF HasRegex(type)
             THEN Iteration(type, RuleReplace(type, RegexExec(type, line)), null, NoMatch)
             ELSE Iteration(type, RuleOpenReplacement(type, RuleOpen(type, line)),
                            type, RuleOpen(type, line))

\* no block is open: the loop over the rules of the grammar, from the k-th key on
RECURSIVE ScanRules(_, _, _)
ScanRules(line, k, html) ==
    IF k > Len(LineGrammarKeys)
    THEN Unmatched(html)
    ELSE LET type == LineGrammarKeys[k]
         IN  IF HasRegex(type)
             THEN LET match == RegexExec(type, line)
                  IN  IF match # NoMatch
                      THEN Iteration(type, RuleReplace(type, match), null, NoMatch)
                      ELSE ScanRules(line, k + 1, html)
             ELSE LET open == RuleOpen(type, line)
                  IN  IF open # NoMatch
                      THEN Iteration(type, RuleOpenReplacement(type, open), type, open)
                      ELSE ScanRules(line, k + 1, html)

\* a line inside of a block that does not close it is classified by the rules
InBlock_rescan(line, openType, openMatch) ==
    LET close == RuleClose(openType, line, openMatch)
        scan == ScanRules(line, 1, RuleLine(openType, line))
    IN  IF close # NoMatch
        THEN Iteration(openType, close, null, NoMatch)
        ELSE IF scan.lineType # null
             THEN scan
             ELSE Iteration(openType, RuleLine(openType, line), openType, openMatch)

\* the closing line does not reset openType and openMatch
InBlock_staysOpen(line, openType, openMatch) ==
    LET close == RuleClose(openType, line, openMatch)
    IN  IF close # NoMatch
        THEN Iteration(openType, close, openType, openMatch)
        ELSE Iteration(openType, RuleLine(openType, line), openType, openMatch)

\* a block is open: the line closes it or is a line of the block
InBlock(line, openType, openMatch) ==
    LET close == RuleClose(openType, line, openMatch)
    IN  IF close # NoMatch
        THEN Iteration(openType, close, null, NoMatch)
        ELSE Iteration(openType, RuleLine(openType, line), openType, openMatch)

\* the body of the loop for one line
ParseLine(line, openType, openMatch) ==
    IF openType # null
    THEN InBlock(line, openType, openMatch)
    ELSE ScanRules(line, 1, parseInline(line))

\* parse does not empty this.lines and this.lineTypes
ParseStart_keepLines(oldLines, oldTypes, oldLog) ==
    [lines |-> oldLines, lineTypes |-> oldTypes, openType |-> null, openMatch |-> NoMatch,
     log |-> <<>>]

\* openType and openMatch are fields that survive the call
ParseStart_keepOpen(oldLines, oldTypes, oldLog) ==
    [lines |-> <<>>, lineTypes |-> <<>>,
     openType |-> IF oldLog = <<>> THEN null ELSE oldLog[Len(oldLog)].openType,
     openMatch |-> IF oldLog = <<>> THEN NoMatch ELSE oldLog[Len(oldLog)].openMatch,
     log |-> <<>>]

\* the state parse starts its loop with: the locals openType and openMatch
\* are null and this.lines and this.lineTypes are emptied
ParseStart(oldLines, oldTypes, oldLog) ==
    [lines |-> <<>>, lineTypes |-> <<>>, openType |-> null, openMatch |-> NoMatch,
     log |-> <<>>]

RECURSIVE ParseLoop(_, _, _)
ParseLoop(input, lineNum, st) ==
    IF lineNum >= Len(input) THEN st
    ELSE LET r == ParseLine(input[lineNum + 1], st.openType, st.openMatch)
         IN  ParseLoop(input, lineNum + 1,
                 [lines |-> Append(st.lines, r.html),
                  lineTypes |-> Append(st.lineTypes, r.lineType),
                  openType |-> r.openType,
                  openMatch |-> r.openMatch,
                  log |-> Append(st.log, [openType |-> r.openType, openMatch |-> r.openMatch])])

\* parse(input) on a parser whose fields are oldLines, oldTypes
parse(input, oldLines, oldTypes, oldLog) ==
    ParseLoop(input, 0, ParseStart(oldLines, oldTypes, oldLog))

\* the result of parse(input) on a parser that was never used
Fresh(input) == parse(input, <<>>, <<>>, <<>>)

\* this.markdown.parse(input), as a step of the parser
MarkdownParse(input) ==
    LET r == parse(input, mdLines, lineTypes, openLog)
    IN  /\ mdLines' = r.lines
        /\ lineTypes' = r.lineTypes
        /\ openLog' = r.log
        /\ parseInput' = input

(***************************************************************************)
(* src/src/utils.ts: defu, on the plain objects of the configuration.      *)
(* An object is the list of its own properties <<key, value>> in insertion *)
(* order, which is the order of for-in.  A value is a reference to a plain *)
(* object, an atom (a function, a regular expression, a string, a number   *)
(* or a boolean, named by the place that defines it), null or undefined.   *)
(***************************************************************************)
Ref(id) == <<"ref", id>>
Atom(a) == <<"atom", a>>
Null == <<"null", "">>
Undefined == <<"undefined", "">>

\* obj.constructor === Object holds of the object literals and of nothing else
isPlainObject(value) == value[1] = "ref"

\* the own keys of an object, in for-in order
Keys(obj) == [j \in 1..Len(obj) |-> obj[j][1]]

HasKey(obj, key) == \E j \in 1..Len(obj) : obj[j][1] = key

\* obj[key]
Get(obj, key) ==
    IF HasKey(obj, key) THEN obj[CHOOSE j \in 1..Len(obj) : obj[j][1] = key][2]
    ELSE Undefined

\* obj[key] = value: an existing property keeps its place, a new one is last
Put(obj, key, value) ==
    IF HasKey(obj, key)
    THEN [j \in 1..Len(obj) |-> IF obj[j][1] = key THEN <<key, value>> ELSE obj[j]]
    ELSE Append(obj, <<key, value>>)

\* a rule object whose functions and expressions are defined at owner
RuleObject(owner, fields) == [j \in 1..Len(fields) |-> <<fields[j], Atom(owner)>>]

\* a grammar object: every key refers to the rule object of that name
GrammarObject(keys) == [j \in 1..Len(keys) |-> <<keys[j], Ref(keys[j])>>]

\* the keys of defaultInlineGrammar in iteration order
InlineGrammarKeys ==
    <<"Escape", "Autolink", "InlineCode", "URL", "Email", "Emphasis",
      "StrongEmphasis", "Underline", "Strikethrough">>

\* the own keys of every rule of the two default grammars
DefaultRuleFields(name) ==
    CASE name = "CodeBlock" -> <<"open", "line", "close">>
      [] name \in {"InlineCode", "URL"} -> <<"match", "replace">>
      [] name \in {"Emphasis", "StrongEmphasis", "Underline", "Strikethrough"} ->
            <<"delimiter", "length", "replace">>
      [] OTHER -> <<"regex", "replace">>

DefaultRuleNames ==
    {LineGrammarKeys[j] : j \in 1..Len(LineGrammarKeys)}
    \cup {InlineGrammarKeys[j] : j \in 1..Len(InlineGrammarKeys)}

\* the objects a caller can build for the constructor
CallerIds == {"config", "config.markdown", "config.lineGrammar", "customRule"}

\* a rule of the caller, of the shape of the Subtext rule of the demo
customRule == RuleObject("customRule", <<"regex", "replace">>)

\* export const disableRule
disableRule == RuleObject("disableRule", <<"match", "replace">>)

defaultBlockHideRules ==
    <<<<"BlockQuote", Atom(".md-quote > .md-mark")>>,
      <<"CodeBlock", Atom(".md-code-block > .md-mark")>>>>

defaultKeymap ==
    RuleObject("defaultKeymap",
        <<"Enter", "Shift Enter", "Escape", "CtrlMeta Z", "CtrlMeta Y", "CtrlMeta Shift Z",
          "Tab", "Shift Tab", "Backspace", "Shift Backspace", "Home", "Shift Home">>)

defaultConfig ==
    <<<<"content", Atom("")>>,
      <<"readonly", Atom("false")>>,
      <<"lineWrap", Atom("false")>>,
      <<"tabSize", Atom("2")>>,
      <<"indentWithSpaces", Atom("false")>>,
      <<"convertIndentation", Atom("true")>>,
      <<"hideMarks", Atom("false")>>,
      <<"blockHideRules", Ref("defaultBlockHideRules")>>,
      <<"keymap", Ref("defaultKeymap")>>,
      <<"markdown", Ref("defaultConfig.markdown")>>>>

ObjectIds ==
    DefaultRuleNames \cup CallerIds
    \cup {"defaultConfig", "defaultConfig.markdown", "defaultLineGrammar",
          "defaultInlineGrammar", "defaultBlockHideRules", "defaultKeymap", "disableRule"}

\* the objects that the modules of the library define
ModuleHeap ==
    [id \in ObjectIds |->
        CASE id \in DefaultRuleNames -> RuleObject(id, DefaultRuleFields(id))
          [] id = "defaultConfig" -> defaultConfig
          [] id = "defaultConfig.markdown" ->
                <<<<"lineGrammar", Ref("defaultLineGrammar")>>,
                  <<"inlineGrammar", Ref("defaultInlineGrammar")>>>>
          [] id = "defaultLineGrammar" -> GrammarObject(LineGrammarKeys)
          [] id = "defaultInlineGrammar" -> GrammarObject(InlineGrammarKeys)
          [] id = "defaultBlockHideRules" -> defaultBlockHideRules
          [] id = "defaultKeymap" -> defaultKeymap
          [] id = "disableRule" -> disableRule
          [] OTHER -> <<>>]

\* the loop of defu over the keys of defaults, from the k-th key on; obj and
\* defaults are ids of objects of the heap h, the result is the heap after
\* the loop
RECURSIVE DefuLoop(_, _, _, _)
DefuLoop(h, obj, defaults, k) ==
    IF k > Len(h[defaults]) THEN h
    ELSE LET key == h[defaults][k][1]
             value == Get(h[obj], key)
             defaultValue == h[defaults][k][2]
         IN  IF key \in {"__proto__", "constructor"}
             THEN DefuLoop(h, obj, defaults, k + 1)
             ELSE IF value \in {Undefined, Null}
             THEN DefuLoop([h EXCEPT ![obj] = Put(h[obj], key, defaultValue)],
                           obj, defaults, k + 1)
             ELSE IF isPlainObject(value) /\ isPlainObject(defaultValue)
             THEN DefuLoop(DefuLoop(h, value[2], defaultValue[2], 1), obj, defaults, k + 1)
             ELSE DefuLoop(h, obj, defaults, k + 1)

\* defu(obj, defaults): obj is the id of an object or Undefined, and then the
\* new object {} gets the id fresh; the result is the heap and the id returned
defu(h, obj, defaults, fresh) ==
    LET o == IF obj = Undefined THEN fresh ELSE obj[2]
        h0 == IF obj = Undefined THEN [h EXCEPT ![fresh] = <<>>] ELSE h
    IN  [heap |-> DefuLoop(h0, o, defaults, 1), obj |-> o]

(***************************************************************************)
(* The parser alone, driven by a client that calls parse once or twice.    *)
(***************************************************************************)
T(a, b, c, d, e) == SelectSeq(<<a, b, c, d, e>>, LAMBDA x : x # "")

ParseTexts ==
    { <<>>,                          \* the empty line
      T("a", "", "", "", ""),        \* a
      T("#", " ", "x", "", ""),      \* # x
      T(">", " ", "x", "", ""),      \* > x
      T(BT, BT, BT, "j", "s"),       \* the opening fence with a language
      T(BT, BT, BT, "", ""),         \* a fence of three backticks
      T(BT, BT, BT, BT, ""),         \* a fence of four backticks
      T(" ", BT, BT, BT, " ") }      \* an indented fence with a trailing space

DocsOf(texts, n) == UNION {[1..k -> texts] : k \in 0..n}

ParseDocs == DocsOf(ParseTexts, MaxLines)
PriorDocs == DocsOf(ParseTexts, 1)

EditorIdle ==
    /\ lines = <<>>
    /\ dom = <<>>
    /\ before = <<>>
    /\ written = {}
    /\ removed = {}
    /\ created = {}

\* neither a lookup nor a function of the inline grammar was called
QueryIdle ==
    /\ lookup = NoLookup
    /\ inline = NoInline(<<>>)

\* EventTarget.addEventListener that adds a listener whatever is registered
addEventListener_always(list, target, type, handler) ==
    Append(list, [target |-> target, type |-> type, handler |-> handler])

\* EventTarget.addEventListener(type, handler) on target: a listener with
\* the same type and callback is not added again
addEventListener(list, target, type, handler) ==
    IF \E k \in 1..Len(list) :
        list[k] = [target |-> target, type |-> type, handler |-> handler]
    THEN list
    ELSE Append(list, [target |-> target, type |-> type, handler |-> handler])

\* EventTarget.removeEventListener(type, handler) on target
removeEventListener(list, target, type, handler) ==
    SelectSeq(list, LAMBDA l : l # [target |-> target, type |-> type, handler |-> handler])

\* the calls of addEventListener in setup() and of removeEventListener in
\* destroy(): target, type and the property of Editor.handlers, which holds
\* one bound function per handler for the life of the editor
SetupCalls ==
    << <<"root", "beforeinput", "beforeinput">>, <<"root", "input", "input">>,
       <<"root", "compositionstart", "compositionstart">>,
       <<"root", "compositionend", "compositionend">>,
       <<"root", "keydown", "key">>, <<"root", "paste", "paste">>,
       <<"root", "mousedown", "mousedown">>, <<"root", "click", "click">>,
       <<"document", "selectionchange", "selection">> >>

FirefoxCalls == << <<"root", "focus", "selection">>, <<"root", "blur", "selection">> >>

DestroyCalls == SubSeq(SetupCalls, 1, 8) \o FirefoxCalls \o SubSeq(SetupCalls, 9, 9)

RECURSIVE AddAll(_, _)
AddAll(list, calls) ==
    IF calls = <<>> THEN list
    ELSE AddAll(addEventListener(list, calls[1][1], calls[1][2], calls[1][3]), Tail(calls))

RECURSIVE RemoveAllListeners(_, _)
RemoveAllListeners(list, calls) ==
    IF calls = <<>> THEN list
    ELSE RemoveAllListeners(removeEventListener(list, calls[1][1], calls[1][2], calls[1][3]),
                            Tail(calls))

\* setup() on the wiring w of the root element
setup(w) ==
    [w EXCEPT !.contenteditable = TRUE,
              !.listeners = AddAll(AddAll(w.listeners, SetupCalls),
                                   IF w.isFirefox THEN FirefoxCalls ELSE <<>>)]

\* destroy()
destroy(w) ==
    [w EXCEPT !.contenteditable = FALSE,
              !.listeners = RemoveAllListeners(w.listeners, DestroyCalls)]

\* set readonly(readonly)
SetReadonlyOf(w, readonly) ==
    [(IF readonly THEN destroy(w) ELSE setup(w)) EXCEPT !.readonly = readonly]

\* no editor was constructed on the root element
NoListening ==
    [listeners |-> <<>>, contenteditable |-> FALSE, readonly |-> FALSE,
     isFirefox |-> FALSE, pending |-> <<>>, changes |-> 0]

\* the root element after new Editor(root) with the default configuration
\* in a browser that is not Firefox
Listening == setup(NoListening)

\* no event was delivered and no history is followed
SessionIdle ==
    /\ state = NoState
    /\ undoStack = <<>>
    /\ redoStack = <<>>
    /\ linesRef = 0
    /\ listening = NoListening
    /\ events = NoEvents
    /\ run = NoRun

ParserNew ==
    /\ mdLines = <<>>
    /\ lineTypes = <<>>
    /\ parseInput = <<>>
    /\ openLog = <<>>

\* no editor was constructed: the heap holds the objects of the modules
ConfigIdle ==
    /\ heap = ModuleHeap
    /\ given = ModuleHeap
    /\ ctor = [state |-> "new", root |-> FALSE, config |-> Undefined]

ParseInit ==
    /\ ParserNew
    /\ EditorIdle
    /\ QueryIdle
    /\ ConfigIdle
    /\ SessionIdle
    /\ done = 0
    /\ todo \in {<<d>> : d \in ParseDocs} \cup {<<p, d>> : p \in PriorDocs, d \in ParseDocs}

ParseCall ==
    /\ done < Len(todo)
    /\ MarkdownParse(todo[done + 1])
    /\ done' = done + 1
    /\ UNCHANGED <<todo, editorVars, configVars, queryVars, sessionVars, run>>

ParseNext == ParseCall

ParseSpec == ParseInit /\ [][ParseNext]_vars

(***************************************************************************)
(* The parser on lines that more than one rule of the grammar matches.     *)
(***************************************************************************)
StarBreak == <<"*", " ", "*", " ", "*">>                 \* * * *
DashBreak == <<"-", " ", "-", " ", "-">>                 \* - - -
CheckedTask == <<"-", " ", "[", "x", "]", " ", "a">>     \* - [x] a

PriorityTexts ==
    { StarBreak, DashBreak, CheckedTask,
      <<"-", " ", "a">>,                  \* a list item
      <<"*", " ", "#", " ", "a">>,        \* a list item whose text looks like a heading
      <<"1", ".", " ", "a">>,             \* an item of an ordered list
      <<"#", " ", "-", " ", "a">>,        \* a heading whose text looks like a list item
      <<"*", "*", "*">>,                  \* a thematic break that is no list item
      <<">", " ", "-", " ", "a">>,        \* a quote whose text looks like a list item
      <<"a">> }

PriorityInit ==
    /\ ParserNew
    /\ EditorIdle
    /\ QueryIdle
    /\ ConfigIdle
    /\ SessionIdle
    /\ done = 0
    /\ todo \in {<<d>> : d \in DocsOf(PriorityTexts, MaxLines)}

PrioritySpec == PriorityInit /\ [][ParseNext]_vars

(***************************************************************************)
(* src/src/editor.ts: the content setter and updateDOM.                    *)
(***************************************************************************)
tabSize == 2

\* convertIndentation of one line with the default configuration
\* (convertIndentation: true, indentWithSpaces: false)
ConvertLineIndentation(line) ==
    LET n == RunLen(line, 0, Space)
        lineIndent == SubSeq(line, 1, n)
        indentSpaces == [j \in 1..tabSize |-> " "]
    IN  IF n > 0
        THEN ReplaceAll(lineIndent, indentSpaces, <<"\t">>) \o From(line, n)
        ELSE line

\* convertIndentation(content).split('\n'), the content given as its lines
convertIndentation(doc) == [j \in 1..Len(doc) |-> ConvertLineIndentation(doc[j])]

\* what the browser returns for innerHTML of a line element whose content
\* was written as html: a boolean attribute gets an empty value and the
\* white space before the end of a tag is dropped
BrowserSerialize(html) ==
    ReplaceAll(
        ReplaceAll(html, <<"checked">>, <<"checked", "=", "\"", "\"">>),
        <<" ", ">">>, <<">">>)

\* elm.innerHTML.replaceAll('=""', '') of the clone of a line element
InnerHTML(html) == ReplaceAll(BrowserSerialize(html), <<"=", "\"", "\"">>, <<>>)

\* every line is assigned when no line was added or deleted
ChangedLines_all(old, after) == 0..(Len(after) - 1)

\* the indices that are assigned when no line was added or deleted
ChangedLines(old, after) ==
    {i \in 0..(Len(after) - 1) : LineAt(old, i) # LineAt(after, i)}

\* the first loop of the diff range
FirstChangedLine(old, after) ==
    LET len == Max2(Len(old), Len(after))
    IN  Min({i \in 0..len : i = len \/ LineAt(old, i) # LineAt(after, i)})

\* lastChangedLine without the lower limit firstChangedLine + |delta| - 1
LastChangedLine_noLimit(old, after, firstChangedLine) ==
    LET len == Max2(Len(old), Len(after))
        k == Min({j \in 1..len :
                    j = len \/ LineAt(old, Len(old) - j) # LineAt(after, Len(after) - j)})
    IN  len - k

\* the second loop of the diff range and the limit that follows it
LastChangedLine(old, after, firstChangedLine) ==
    LET len == Max2(Len(old), Len(after))
        delta == Len(after) - Len(old)
        k == Min({j \in 1..len :
                    j = len \/ LineAt(old, Len(old) - j) # LineAt(after, Len(after) - j)})
    IN  Max2(len - k, firstChangedLine + Abs(delta) - 1)

\* the children that are left when those with an index in rm are removed
RECURSIVE RemoveAll(_, _, _)
RemoveAll(children, rm, i) ==
    IF i >= Len(children) THEN <<>>
    ELSE (IF i \in rm THEN <<>> ELSE <<children[i + 1]>>) \o RemoveAll(children, rm, i + 1)

\* the lines of after with an index in from..to that exist, in order
RECURSIVE Fragment(_, _, _)
Fragment(after, from, to) ==
    IF from > to THEN <<>>
    ELSE (IF LineAt(after, from) = undefinedLine THEN <<>> ELSE <<after[from + 1]>>)
         \o Fragment(after, from + 1, to)

\* root.insertBefore(fragment, root.children[pos] ?? null)
InsertBefore(children, fragment, pos) ==
    LET at == Min2(pos, Len(children))
    IN  SubSeq(children, 1, at) \o fragment \o From(children, at)

\* the children after the changes of updateDOM, old being the local before
\* and after the result of parse
NewChildren(children, old, after) ==
    LET delta == Len(after) - Len(old)
        firstChangedLine == FirstChangedLine(old, after)
        lastChangedLine == LastChangedLine(old, after, firstChangedLine)
    IN  IF delta = 0
        THEN [i \in 1..Len(children) |->
                IF (i - 1) \in ChangedLines(old, after) THEN after[i] ELSE children[i]]
        ELSE InsertBefore(
                RemoveAll(children,
                          firstChangedLine..(lastChangedLine - Max2(delta, 0)), 0),
                Fragment(after, firstChangedLine, lastChangedLine + Min2(delta, 0)),
                firstChangedLine)

\* the indices of the children that updateDOM removes
RemovedLines(children, old, after) ==
    LET delta == Len(after) - Len(old)
        firstChangedLine == FirstChangedLine(old, after)
        lastChangedLine == LastChangedLine(old, after, firstChangedLine)
    IN  IF delta = 0 THEN {}
        ELSE {i \in firstChangedLine..(lastChangedLine - Max2(delta, 0)) : i < Len(children)}

\* the indices of the lines of after for which updateDOM creates an element
CreatedLines(old, after) ==
    LET delta == Len(after) - Len(old)
        firstChangedLine == FirstChangedLine(old, after)
        lastChangedLine == LastChangedLine(old, after, firstChangedLine)
    IN  IF delta = 0 THEN {}
        ELSE {i \in firstChangedLine..(lastChangedLine + Min2(delta, 0)) : i < Len(after)}

\* the indices of the children whose innerHTML updateDOM assigns
WrittenLines(old, after) ==
    IF Len(after) = Len(old) THEN ChangedLines(old, after) ELSE {}

\* this.updateDOM(): parse the lines and apply the changes to the children
UpdateDOM(newLines) ==
    \E r \in {parse(newLines, mdLines, lineTypes, openLog)} :
    \E old \in {[i \in 1..Len(dom) |-> InnerHTML(dom[i])]} :
        /\ lines' = newLines
        /\ mdLines' = r.lines
        /\ lineTypes' = r.lineTypes
        /\ openLog' = r.log
        /\ parseInput' = newLines
        /\ before' = old
        /\ dom' = NewChildren(dom, old, r.lines)
        /\ written' = WrittenLines(old, r.lines)
        /\ removed' = RemovedLines(dom, old, r.lines)
        /\ created' = CreatedLines(old, r.lines)

EditorTexts ==
    { T("a", "", "", "", ""),           \* a
      T("b", "", "", "", ""),           \* b
      T("a", "=", "\"", "\"", "") }     \* a=""

EditorDocs == DocsOf(EditorTexts, MaxEditorLines) \ {<<>>}

\* the editor after new Editor(root) with the default configuration:
\* createEditorElement writes one empty line, content = '' parses it
Init ==
    /\ lines = << <<>> >>
    /\ dom = << <<"<br>">> >>
    /\ mdLines = << <<"<br>">> >>
    /\ lineTypes = <<null>>
    /\ parseInput = << <<>> >>
    /\ openLog = <<NoOpen>>
    /\ before = << <<"<br>">> >>
    /\ written = {}
    /\ removed = {}
    /\ created = {}
    /\ todo = <<>>
    /\ done = 0
    /\ given = ModuleHeap
    /\ heap = defu(ModuleHeap, Undefined, "defaultConfig", "config").heap
    /\ ctor = [state |-> "done", root |-> TRUE, config |-> Undefined]
    /\ lookup = NoLookup
    /\ inline = NoInline(<<>>)
    /\ SessionIdle

\* editor.content = content, content being the lines of doc joined by '\n'
SetContent(doc) ==
    /\ UpdateDOM(convertIndentation(doc))
    /\ UNCHANGED <<todo, done, configVars, queryVars, sessionVars, run>>

Next == \E doc \in EditorDocs : SetContent(doc)

Spec == Init /\ [][Next]_vars

(***************************************************************************)
(* src/src/editor.ts: line and lineAt.                                     *)
(***************************************************************************)
\* get content(): this.lines.join('\n')
RECURSIVE Content(_)
Content(ls) ==
    IF Len(ls) = 0 THEN <<>>
    ELSE IF Len(ls) = 1 THEN ls[1]
    ELSE ls[1] \o <<"\n">> \o Content(Tail(ls))

\* this.lines.slice(0, num).reduce((acc, line) => acc + line.length + 1, 0)
RECURSIVE LineFrom(_, _)
LineFrom(ls, num) ==
    IF num <= 0 THEN 0 ELSE LineFrom(ls, num - 1) + Len(ls[num]) + 1

\* the guard of line
LineOutOfRange(num, ls) == num < 0 \/ num >= Len(ls)

\* the guard of lineAt with the end of the content out of range
LineAtOutOfRange_exclusive(pos, ls) == pos < 0 \/ pos >= Len(Content(ls))

\* the guard of lineAt
LineAtOutOfRange(pos, ls) == pos < 0 \/ pos > Len(Content(ls))

\* the loop of lineAt that leaves a line only after its line break
RECURSIVE LineAtLoop_pastEnd(_, _, _, _)
LineAtLoop_pastEnd(ls, pos, num, from) ==
    IF num >= Len(ls) \/ from + Len(ls[num + 1]) > pos \/ num = Len(ls) - 1
    THEN [num |-> num, from |-> from]
    ELSE LineAtLoop_pastEnd(ls, pos, num + 1, from + Len(ls[num + 1]) + 1)

\* the loop of lineAt from the line with index num on, from being the
\* position of that line
RECURSIVE LineAtLoop(_, _, _, _)
LineAtLoop(ls, pos, num, from) ==
    IF num >= Len(ls) \/ from + Len(ls[num + 1]) >= pos
    THEN [num |-> num, from |-> from]
    ELSE LineAtLoop(ls, pos, num + 1, from + Len(ls[num + 1]) + 1)

\* editor.line(num)
Line(num) ==
    /\ ctor.state = "done"
    /\ lookup' =
        IF LineOutOfRange(num, lines)
        THEN [op |-> "line", arg |-> num, error |-> "RangeError", value |-> <<>>]
        ELSE [op |-> "line", arg |-> num, error |-> "none",
              value |-> <<[num |-> num, from |-> LineFrom(lines, num),
                           end |-> LineFrom(lines, num) + Len(lines[num + 1]),
                           text |-> lines[num + 1]]>>]
    /\ UNCHANGED <<parserVars, editorVars, configVars, todo, done, inline, sessionVars, run>>

\* editor.lineAt(pos); text.length of an undefined text is a TypeError
LineAtPos(pos) ==
    /\ ctor.state = "done"
    /\ lookup' =
        IF LineAtOutOfRange(pos, lines)
        THEN [op |-> "lineAt", arg |-> pos, error |-> "RangeError", value |-> <<>>]
        ELSE LET at == LineAtLoop(lines, pos, 0, 0)
             IN  IF at.num >= Len(lines)
                 THEN [op |-> "lineAt", arg |-> pos, error |-> "TypeError", value |-> <<>>]
                 ELSE [op |-> "lineAt", arg |-> pos, error |-> "none",
                       value |-> <<[num |-> at.num, from |-> at.from,
                                    end |-> at.from + Len(lines[at.num + 1]),
                                    text |-> lines[at.num + 1]]>>]
    /\ UNCHANGED <<parserVars, editorVars, configVars, todo, done, inline, sessionVars, run>>

\* the lines of the documents that the lookups are called on
LookupTexts == {<<>>, <<"a">>, <<"a", "b">>}

LookupDocs == DocsOf(LookupTexts, MaxEditorLines) \ {<<>>}

\* the editor after new Editor(root, { content }), content being the lines
\* of a document joined by '\n'
LookupInit ==
    /\ \E doc \in LookupDocs :
        /\ lines = doc
        /\ parseInput = doc
        /\ mdLines = Fresh(doc).lines
        /\ lineTypes = Fresh(doc).lineTypes
        /\ openLog = Fresh(doc).log
        /\ dom = Fresh(doc).lines
    /\ before = << <<"<br>">> >>
    /\ written = {}
    /\ removed = {}
    /\ created = {}
    /\ todo = <<>>
    /\ done = 0
    /\ given = ModuleHeap
    /\ heap = defu(ModuleHeap, Undefined, "defaultConfig", "config").heap
    /\ ctor = [state |-> "done", root |-> TRUE, config |-> Undefined]
    /\ lookup = NoLookup
    /\ inline = NoInline(<<>>)
    /\ SessionIdle

\* the arguments tried: every index and position in range and some outside
LookupNext ==
    \/ \E num \in (-2)..(MaxEditorLines + 1) : Line(num)
    \/ \E pos \in (-2)..(3 * MaxEditorLines + 1) : LineAtPos(pos)

LookupSpec == LookupInit /\ [][LookupNext]_vars

(***************************************************************************)
(* The functions of the inline grammar, each called once on a text.        *)
(***************************************************************************)
\* the texts of up to n characters of an alphabet
TextsOf(alphabet, n) == UNION {[1..k -> alphabet] : k \in 0..n}

\* no parser and no editor exists, a text is given
InlineInit(texts) ==
    /\ ParserNew
    /\ EditorIdle
    /\ ConfigIdle
    /\ SessionIdle
    /\ todo = <<>>
    /\ done = 0
    /\ lookup = NoLookup
    /\ \E text \in texts : inline = NoInline(text)

\* the call fn(inline.arg) that returns out
InlineCall(fn, out) ==
    /\ inline.fn = "none"
    /\ inline' = [fn |-> fn, arg |-> inline.arg, out |-> out]
    /\ UNCHANGED <<parserVars, editorVars, configVars, todo, done, lookup, sessionVars, run>>

EscapeTexts == TextsOf({"&", "<", ">", "a", ";"}, MaxTextLen)

EscapeInit == InlineInit(EscapeTexts)

EscapeCall == InlineCall("escapeHTML", escapeHTML(inline.arg))

EscapeNext == EscapeCall

EscapeSpec == EscapeInit /\ [][EscapeNext]_vars

\* the start of a bare link and of a link in angle brackets
LinkStarts ==
    { <<"h", "t", "t", "p", ":", "/", "/", "a">>,
      <<"<", "a", "b", ":">> }

LinkTailChars == {"/", "(", ")", ".", "\"", "b", "<", ">", ":", "1", "-"}

LinkTexts == {p \o t : p \in LinkStarts, t \in TextsOf(LinkTailChars, MaxUrlTail)}

LinkInit == InlineInit(LinkTexts)

\* rule.match(str) and, when it matches, rule.replace(match)
URLCall ==
    \E match \in {URLMatch(inline.arg)} :
        InlineCall("URL", [match |-> match,
                           html |-> IF match = NoMatch THEN <<>> ELSE URLReplace(match)])

AutolinkCall ==
    \E match \in {AutolinkMatch(inline.arg)} :
        InlineCall("Autolink", [match |-> match,
                                html |-> IF match = NoMatch THEN <<>>
                                         ELSE AutolinkReplace(match)])

LinkNext == URLCall \/ AutolinkCall

LinkSpec == LinkInit /\ [][LinkNext]_vars

\* texts of backticks and other characters
CodeTexts == TextsOf({BT, "a", "<"}, MaxCodeLen)

CodeInit == InlineInit(CodeTexts)

CodeCall ==
    \E match \in {InlineCodeMatch(inline.arg)} :
        InlineCall("InlineCode", [match |-> match,
                                  html |-> IF match = NoMatch THEN <<>>
                                           ELSE InlineCodeReplace(match)])

CodeNext == CodeCall

CodeSpec == CodeInit /\ [][CodeNext]_vars

\* texts of delimiters, backslashes, backticks and letters
\* the lines that the specification names
ScenarioTexts ==
    { <<"*", "*", "b", "o", "l", "d", "*", "*", " ", "a", "n", "d", " ",
        "*", "i", "t", "a", "l", "i", "c", "*">>,
      <<"*", "*", "b", "o", "l", "d", "*", "*">>,
      <<"*", "a", "b">>,
      <<"\\", "*", "n", "o", "t", " ", "i", "t", "a", "l", "i", "c", "\\", "*">>,
      <<"s", "n", "a", "k", "e", "_", "c", "a", "s", "e", "_", "n", "a", "m", "e">>,
      <<"*", "a", " ", "_", "b", "*", " ", "c", "_">> }

FormatTexts ==
    TextsOf({"\\", "*", "_", "~", BT, "a", " "}, MaxFormatLen) \cup ScenarioTexts

FormatInit == InlineInit(FormatTexts)

FormatCall == InlineCall("formatInline", formatInline(inline.arg))

FormatNext == FormatCall

FormatSpec == FormatInit /\ [][FormatNext]_vars

(***************************************************************************)
(* src/src/editor.ts: convertIndentation(text) on a text with line breaks, *)
(* for both values of config.convertIndentation.                           *)
(***************************************************************************)
\* text.split(/\r\n|\r|\n/): cur holds the characters of the current line
RECURSIVE SplitLines(_, _)
SplitLines(text, cur) ==
    IF text = <<>> THEN <<cur>>
    ELSE IF Len(text) >= 2 /\ text[1] = "\r" /\ text[2] = "\n"
         THEN <<cur>> \o SplitLines(SubSeq(text, 3, Len(text)), <<>>)
    ELSE IF text[1] \in {"\r", "\n"}
         THEN <<cur>> \o SplitLines(Tail(text), <<>>)
    ELSE SplitLines(Tail(text), Append(cur, text[1]))

\* String.prototype.replaceAll(regex, rep) of a regular expression without
\* the flag g: a TypeError
ReplaceAllNotGlobal(text, rep) == [error |-> "TypeError", value |-> <<>>]

\* this.convertIndentation(text) with config.convertIndentation = convert
ConvertIndentationOf(text, convert) ==
    IF ~convert
    THEN ReplaceAllNotGlobal(text, <<"\n">>)
    ELSE [error |-> "none", value |-> Content(convertIndentation(SplitLines(text, <<>>)))]

IndentTexts == TextsOf({"a", "\t", " ", "\r", "\n"}, MaxTextLen)

IndentInit == InlineInit({[text |-> t, convert |-> c] : t \in IndentTexts, c \in BOOLEAN})

ConvertCall ==
    InlineCall("convertIndentation",
               ConvertIndentationOf(inline.arg.text, inline.arg.convert))

IndentNext == ConvertCall

IndentSpec == IndentInit /\ [][IndentNext]_vars

(***************************************************************************)
(* src/src/editor.ts: the updates of a focused editor that keep the        *)
(* selection and the history, and insertAtSelection.                       *)
(***************************************************************************)
\* Editor.selectionFrom(pos)
selectionFrom(pos) == [start |-> pos, end |-> pos]

\* setSelection limits the selection to the bounds of the content
LimitSelection(selection, ls) ==
    LET end == Max2(0, Min2(selection.end, Len(Content(ls))))
        start == Max2(0, Min2(selection.start, end))
    IN  [start |-> start, end |-> end]

\* this.lines = newLines; this.updateDOM(selection, pushUndo), the editor
\* having the focus and the state st: the lines are parsed and written, the
\* entry is pushed, and setSelection hands the limited selection to
\* updateState, which writes it to the state and to the entry on top of the
\* undo stack
UpdateDOMAt(st, newLines, selection, pushUndo) ==
    \E limited \in {LimitSelection(selection, newLines)} :
    \E pushed \in {IF pushUndo
                   THEN Append(undoStack, [lines |-> newLines, selection |-> selection])
                   ELSE undoStack} :
        /\ UpdateDOM(newLines)
        /\ undoStack' = IF pushed = <<>> THEN pushed
                        ELSE [pushed EXCEPT ![Len(pushed)].selection = limited]
        /\ redoStack' = IF pushUndo THEN <<>> ELSE redoStack
        /\ state' = [st EXCEPT !.selection = limited]

\* the lines and the selection that insertAtSelection(text) hands to updateDOM
InsertAtSelection(ls, selection, text) ==
    LET content == Content(ls)
        inserted == ConvertIndentationOf(text, TRUE).value
    IN  [lines |-> SplitLines(SubSeq(content, 1, selection.start) \o inserted
                              \o SubSeq(content, selection.end + 1, Len(content)), <<>>),
         selection |-> selectionFrom(selection.start + Len(text))]

(***************************************************************************)
(* src/src/editor.ts: insertAtSelection and the setter of content, called  *)
(* on an editor with content; inline records the call.                     *)
(***************************************************************************)
MaxInsertLen == 3

\* this.updateDOM(selection) of an editor without the focus: the entry is
\* pushed with the selection as given and setSelection is not called
UpdateDOMBlurred(newLines, selection) ==
    /\ UpdateDOM(newLines)
    /\ undoStack' = Append(undoStack, [lines |-> newLines, selection |-> selection])
    /\ redoStack' = <<>>
    /\ state' = state

\* set content(content): the lines and the selection handed to updateDOM
SetContentAt(content) ==
    [lines |-> SplitLines(ConvertIndentationOf(content, TRUE).value, <<>>),
     selection |-> selectionFrom(Len(content))]

InsertTexts == TextsOf({"a", " ", "\r", "\n"}, MaxInsertLen)

InsertInit ==
    /\ \E doc \in { << <<"x", "y">> >>, << <<>> >> } :
        /\ lines = doc
        /\ parseInput = doc
        /\ mdLines = Fresh(doc).lines
        /\ lineTypes = Fresh(doc).lineTypes
        /\ openLog = Fresh(doc).log
        /\ dom = Fresh(doc).lines
        /\ \E end \in 0..Len(Content(doc)) : \E start \in 0..end :
            /\ state = [NoState EXCEPT !.selection = [start |-> start, end |-> end]]
            /\ undoStack = <<[lines |-> doc, selection |-> [start |-> start, end |-> end]]>>
    /\ before = << <<"<br>">> >>
    /\ written = {}
    /\ removed = {}
    /\ created = {}
    /\ todo = <<>>
    /\ done = 0
    /\ given = ModuleHeap
    /\ heap = defu(ModuleHeap, Undefined, "defaultConfig", "config").heap
    /\ ctor = [state |-> "done", root |-> TRUE, config |-> Undefined]
    /\ lookup = NoLookup
    /\ inline = NoInline(<<>>)
    /\ redoStack = <<>>
    /\ linesRef = 0
    /\ listening = Listening
    /\ events = NoEvents
    /\ run = NoRun

\* editor.insertAtSelection(text); the editor has or has not the focus
InsertText(text, focused) ==
    /\ inline.fn = "none"
    /\ \E r \in {InsertAtSelection(lines, state.selection, text)} :
        /\ IF focused THEN UpdateDOMAt(state, r.lines, r.selection, TRUE)
           ELSE UpdateDOMBlurred(r.lines, r.selection)
        /\ inline' = [fn |-> "insertAtSelection",
                      arg |-> [lines |-> lines, selection |-> state.selection,
                               text |-> text, focused |-> focused],
                      out |-> r]
    /\ events' = [events EXCEPT !.handled = @ + 1, !.renders = @ + 1]
    /\ UNCHANGED <<todo, done, configVars, lookup, run>>
    /\ linesRef' = 0
    /\ UNCHANGED listening

\* editor.content = content; the editor has or has not the focus
AssignContent(content, focused) ==
    /\ inline.fn = "none"
    /\ \E r \in {SetContentAt(content)} :
        /\ IF focused THEN UpdateDOMAt(state, r.lines, r.selection, TRUE)
           ELSE UpdateDOMBlurred(r.lines, r.selection)
        /\ inline' = [fn |-> "content",
                      arg |-> [lines |-> lines, selection |-> state.selection,
                               text |-> content, focused |-> focused],
                      out |-> r]
    /\ events' = [events EXCEPT !.handled = @ + 1, !.renders = @ + 1]
    /\ UNCHANGED <<todo, done, configVars, lookup, run>>
    /\ linesRef' = 0
    /\ UNCHANGED listening

InsertNext ==
    \/ \E text \in InsertTexts : \E focused \in BOOLEAN : InsertText(text, focused)
    \/ \E content \in InsertTexts : \E focused \in BOOLEAN : AssignContent(content, focused)

InsertSpec == InsertInit /\ [][InsertNext]_vars

(***************************************************************************)
(* src/src/keymap.ts: insertNewlineAndIndent, the handler of Enter.        *)
(***************************************************************************)
\* Number.parseInt of a run of decimal digits
DigitValue(c) == CHOOSE v \in 0..9 : <<"0", "1", "2", "3", "4", "5", "6", "7", "8", "9">>[v + 1] = c

RECURSIVE ParseInt(_)
ParseInt(digits) ==
    IF digits = <<>> THEN 0
    ELSE 10 * ParseInt(SubSeq(digits, 1, Len(digits) - 1)) + DigitValue(digits[Len(digits)])

\* the decimal digits of a number that is added to a string
RECURSIVE ToDigits(_)
ToDigits(n) ==
    LET last == <<"0", "1", "2", "3", "4", "5", "6", "7", "8", "9">>[(n % 10) + 1]
    IN  IF n < 10 THEN <<last>> ELSE Append(ToDigits(n \div 10), last)

\* /^[\t ]*(?<num>\d+)(?<mark>[).] )/ : the groups num and mark
OrderedMark(text) ==
    LET n == RunLen(text, 0, Space)
        d == RunLen(text, n, Digit)
    IN  IF d >= 1 /\ At(text, n + d) \in {")", "."} /\ At(text, n + d + 1) = " "
        THEN [num |-> SubSeq(text, n + 1, n + d), mark |-> SubSeq(text, n + d + 1, n + d + 2)]
        ELSE null

\* /^[\t ]*(?<mark>> ?|[-+*] \[[x ]\] |[-+*] )/i : the group mark
OtherMark(text) ==
    LET n == RunLen(text, 0, Space)
    IN  IF At(text, n) = ">"
        THEN [mark |-> SubSeq(text, n + 1, n + (IF At(text, n + 1) = " " THEN 2 ELSE 1))]
        ELSE IF TaskListMatch(text) # NoMatch THEN [mark |-> TaskListMatch(text)[2]]
        ELSE IF UnorderedListMatch(text) # NoMatch THEN [mark |-> SubSeq(text, n + 1, n + 2)]
        ELSE null

\* mark.replace(/x/i, ' '): the first x of the mark becomes a space
UncheckMark(mark) ==
    LET xs == {j \in 1..Len(mark) : mark[j] \in {"x", "X"}}
    IN  IF xs = {} THEN mark ELSE [mark EXCEPT ![Min(xs)] = " "]

\* the mark of the next line: the number of an ordered list is counted up
NextMark(lineType, text) ==
    IF lineType = "OrderedList"
    THEN ToDigits(ParseInt(OrderedMark(text).num) + 1) \o OrderedMark(text).mark
    ELSE IF lineType = "TaskList" THEN UncheckMark(OtherMark(text).mark)
    ELSE OtherMark(text).mark

\* mark.length where the handler cuts the line and compares the caret: the
\* length of the mark of the next line
MarkLength(lineType, text) == Len(NextMark(lineType, text))

\* /BlockQuote|List/.test(lineType)
IsQuoteOrList(lineType) == lineType \in {"BlockQuote", "TaskList", "UnorderedList", "OrderedList"}

\* the lines and the selection that insertNewlineAndIndent hands to updateDOM
insertNewlineAndIndent(ls, types, selection) ==
    LET at == LineAtLoop(ls, selection.start, 0, 0)
        text == ls[at.num + 1]
        lineType == types[at.num + 1]
        indent == SubSeq(text, 1, RunLen(text, 0, Space))
    IN  IF IsQuoteOrList(lineType) /\ selection.start = selection.end
        THEN LET mark == NextMark(lineType, text)
                 length == MarkLength(lineType, text)
                 rest == From(text, Len(indent) + length)
             IN  IF selection.start < at.from + Len(indent) + length
                 THEN InsertAtSelection(ls, selection, <<"\n">> \o indent)
                 ELSE IF Len(rest) > 0
                 THEN InsertAtSelection(ls, selection, <<"\n">> \o indent \o mark)
                 ELSE [lines |-> [ls EXCEPT ![at.num + 1] = indent],
                       selection |-> selectionFrom(selection.start - length)]
        ELSE InsertAtSelection(ls, selection, <<"\n">> \o indent)

\* the lines on which Enter is pressed
EnterTexts ==
    { <<"1", ".", " ", "a">>, <<"9", ".", " ", "a">>, <<"9", ".", " ", "a", "b">>,
      <<"1", ".", " ">>, <<"9", ".", " ">>, <<" ", "9", ")", " ", "a">>,
      <<"9", "9", ".", " ", "a">>, <<"1", "0", ".", " ", "a">>,
      <<"-", " ", "a">>, <<"-", " ">>, <<">", " ", "a">>, <<">">>,
      <<"-", " ", "[", "x", "]", " ", "a">>, <<"a">>, <<"\t", "a">>, <<>> }

\* the focused editor after new Editor(root, { content }) and a click that
\* puts the caret at a position of the content
EnterInit ==
    /\ \E doc \in DocsOf(EnterTexts, 1) \ {<<>>} :
        /\ lines = doc
        /\ parseInput = doc
        /\ mdLines = Fresh(doc).lines
        /\ lineTypes = Fresh(doc).lineTypes
        /\ openLog = Fresh(doc).log
        /\ dom = Fresh(doc).lines
        /\ \E pos \in 0..Len(Content(doc)) :
            /\ state = [NoState EXCEPT !.selection = selectionFrom(pos)]
            /\ undoStack = <<[lines |-> doc, selection |-> selectionFrom(pos)]>>
    /\ before = << <<"<br>">> >>
    /\ written = {}
    /\ removed = {}
    /\ created = {}
    /\ todo = <<>>
    /\ done = 0
    /\ given = ModuleHeap
    /\ heap = defu(ModuleHeap, Undefined, "defaultConfig", "config").heap
    /\ ctor = [state |-> "done", root |-> TRUE, config |-> Undefined]
    /\ lookup = NoLookup
    /\ inline = NoInline(<<>>)
    /\ redoStack = <<>>
    /\ linesRef = 0
    /\ listening = Listening
    /\ events = NoEvents
    /\ run = NoRun

\* the keybind of Enter runs its handler
PressEnter ==
    /\ events.handled < MaxEnters
    /\ \E r \in {insertNewlineAndIndent(lines, lineTypes, state.selection)} :
        UpdateDOMAt(state, r.lines, r.selection, TRUE)
    /\ events' = [events EXCEPT !.count = @ + 1, !.last = "keydown",
                                !.handled = @ + 1, !.renders = @ + 1]
    /\ UNCHANGED <<todo, done, configVars, queryVars, run>>
    /\ UNCHANGED linesRef
    /\ UNCHANGED listening

EnterNext == PressEnter

EnterSpec == EnterInit /\ [][EnterNext]_vars

(***************************************************************************)
(* src/src/keymap.ts: deleteBackward, the handler of Backspace.            *)
(***************************************************************************)
\* the length of the match of quoteListRegex,
\* /^[\t ]*(?:> ?|[-+*] \[[x ]\] |[-+*] |\d+[).] )/i, or 0 without a match
QuoteListLength(text) ==
    LET n == RunLen(text, 0, Space)
        d == RunLen(text, n, Digit)
    IN  IF At(text, n) = ">" THEN n + (IF At(text, n + 1) = " " THEN 2 ELSE 1)
        ELSE IF TaskListMatch(text) # NoMatch THEN n + Len(TaskListMatch(text)[2])
        ELSE IF UnorderedListMatch(text) # NoMatch THEN n + 2
        ELSE IF d >= 1 /\ At(text, n + d) \in {")", "."} /\ At(text, n + d + 1) = " "
        THEN n + d + 2
        ELSE 0

\* str.substring(0, a) + str.substring(b): a negative index counts as 0
CutOut(str, a, b) == SubSeq(str, 1, Max2(a, 0)) \o SubSeq(str, b + 1, Len(str))

\* the position up to which deleteBackward deletes from the caret
DeleteFrom(ls, types, caret, indentWithSpaces) ==
    LET at == LineAtLoop(ls, caret, 0, 0)
        text == ls[at.num + 1]
        lineIndent == RunLen(text, 0, Space)
        markLength == QuoteListLength(text) - lineIndent
    IN  IF IsQuoteOrList(types[at.num + 1])
        THEN IF caret = at.from + lineIndent + markLength
             THEN caret - 1 - (markLength - 1)
             ELSE caret - 1
        ELSE IF indentWithSpaces /\ caret = at.from + lineIndent
        THEN caret - 1 - (tabSize - 1)
        ELSE caret - 1

\* deleteBackward(editor): the lines and the selection that are handed to
\* updateDOM, or no update with the caret at 0
deleteBackward(ls, types, selection, indentWithSpaces) ==
    IF selection.start # selection.end
    THEN [updated |-> TRUE,
          lines |-> InsertAtSelection(ls, selection, <<>>).lines,
          selection |-> InsertAtSelection(ls, selection, <<>>).selection]
    ELSE IF selection.start = 0
    THEN [updated |-> FALSE, lines |-> ls, selection |-> selection]
    ELSE LET pos == DeleteFrom(ls, types, selection.start, indentWithSpaces)
         IN  [updated |-> TRUE,
              lines |-> SplitLines(CutOut(Content(ls), pos, selection.start), <<>>),
              selection |-> selectionFrom(pos)]

\* the lines on which Backspace is pressed
BackspaceTexts ==
    { <<"a", "b">>, <<>>, <<" ", "a">>, <<" ", " ", "a">>, <<"\t", "a">>,
      <<">", " ", "a">>, <<"-", " ", "a">>, <<" ", "-", " ", "a">>,
      <<"1", ".", " ", "a">> }

HasTab(doc) == \E j \in 1..Len(doc) : \E k \in 1..Len(doc[j]) : doc[j][k] = "\t"

\* the editors on which Backspace is pressed: the lines, the collapsed
\* caret and config.indentWithSpaces, with which the indentation of the
\* content has no tab
BackspaceCases ==
    {c \in [lines : DocsOf(BackspaceTexts, MaxBackspaceLines) \ {<<>>},
            caret : 0..(6 * MaxBackspaceLines), indentWithSpaces : BOOLEAN] :
        /\ c.caret <= Len(Content(c.lines))
        /\ c.indentWithSpaces => ~HasTab(c.lines)}

BackspaceInit == InlineInit(BackspaceCases)

BackspaceCall ==
    InlineCall("deleteBackward",
               deleteBackward(inline.arg.lines, Fresh(inline.arg.lines).lineTypes,
                              selectionFrom(inline.arg.caret), inline.arg.indentWithSpaces))

BackspaceNext == BackspaceCall

BackspaceSpec == BackspaceInit /\ [][BackspaceNext]_vars

(***************************************************************************)
(* src/src/editor.ts: the handlers of the input, composition and key       *)
(* events of a focused editor.                                             *)
(***************************************************************************)
\* the characters of the texts, each one token of HTML
Characters == Space \cup Digit \cup EscapePunct \cup {"a", "b", "x", "X", ";", "l", "g", "t", "m", "p"}

\* lineElm.textContent: the text of the element without its tags
TextContent(html) ==
    ReplaceAll(
        ReplaceAll(
            ReplaceAll(SelectSeq(html, LAMBDA token : token \in Characters),
                       <<"&", "l", "t", ";">>, <<"<">>),
            <<"&", "g", "t", ";">>, <<">">>),
        <<"&", "a", "m", "p", ";">>, <<"&">>)

\* updateLines: the lines are read back from the line elements
updateLines(children) == [i \in 1..Len(children) |-> TextContent(children[i])]

\* the record of the handlers after the event name was delivered
Delivered(name) == [events EXCEPT !.count = @ + 1, !.last = name]

\* handleInput that reads back during a composition too
handleInput_always(st, ev) ==
    \E newLines \in {updateLines(dom)} :
    \E pos \in {0, Len(Content(newLines))} :
        /\ UpdateDOMAt(st, newLines, selectionFrom(pos), TRUE)
        /\ events' = [ev EXCEPT !.reads = @ + 1, !.renders = @ + 1]

\* this.handleInput() of an editor with the state st: nothing during a
\* composition, else updateLines() and updateDOM() at the caret of the
\* browser, which is at the start or at the end of the content
handleInput(st, ev) ==
    IF st.composing
    THEN /\ state' = st
         /\ events' = [ev EXCEPT !.ignored = @ + 1]
         /\ UNCHANGED <<parserVars, editorVars, undoStack, redoStack>>
    ELSE \E newLines \in {updateLines(dom)} :
         \E pos \in {0, Len(Content(newLines))} :
            /\ UpdateDOMAt(st, newLines, selectionFrom(pos), TRUE)
            /\ events' = [ev EXCEPT !.reads = @ + 1, !.renders = @ + 1]

\* the documents that the browser leaves in the line elements
EventTexts == {<<>>, <<"a">>}

EventDocs == DocsOf(EventTexts, 2) \ {<<>>}

\* the browser writes typed or composed text into the line elements
BrowserEdit(doc) ==
    /\ events.count < MaxEvents
    /\ updateLines(dom) # doc
    /\ dom' = [i \in 1..Len(doc) |-> fix(doc[i])]
    /\ UNCHANGED <<parserVars, lines, before, written, removed, created, todo, done,
                   configVars, queryVars, sessionVars, run>>

\* Date.now() passes the next period of more than 100 ms
Tick ==
    /\ events.clock < MaxClock
    /\ events' = [events EXCEPT !.clock = @ + 1]
    /\ UNCHANGED <<parserVars, editorVars, todo, done, configVars, queryVars,
                   state, undoStack, redoStack, run>>
    /\ UNCHANGED linesRef
    /\ UNCHANGED listening

\* an input event
HandleInput ==
    /\ events.count < MaxEvents
    /\ handleInput(state, Delivered("input"))
    /\ UNCHANGED <<todo, done, configVars, queryVars, run>>
    /\ UNCHANGED linesRef
    /\ UNCHANGED listening

\* a selectionchange event with the selection of the browser: updateState
HandleSelection(selection) ==
    /\ events.count < MaxEvents
    /\ selection.start <= selection.end
    /\ selection.end <= Len(Content(lines))
    /\ state.composing \/ state.selection # selection
    /\ state' = [state EXCEPT !.selection = selection]
    /\ undoStack' = [undoStack EXCEPT ![Len(undoStack)].selection = selection]
    /\ events' = Delivered("selectionchange")
    /\ UNCHANGED <<parserVars, editorVars, todo, done, configVars, queryVars, redoStack, run>>
    /\ UNCHANGED linesRef
    /\ UNCHANGED listening

\* a compositionstart event: a selected range is replaced by '' first
HandleCompositionStart ==
    /\ events.count < MaxEvents
    /\ ~state.composing
    /\ IF state.selection.start # state.selection.end
       THEN \E r \in {InsertAtSelection(lines, state.selection, <<>>)} :
            /\ UpdateDOMAt([state EXCEPT !.composing = TRUE], r.lines, r.selection, TRUE)
            /\ events' = [Delivered("compositionstart") EXCEPT !.renders = @ + 1]
       ELSE /\ state' = [state EXCEPT !.composing = TRUE]
            /\ events' = Delivered("compositionstart")
            /\ UNCHANGED <<parserVars, editorVars, undoStack, redoStack>>
    /\ UNCHANGED <<todo, done, configVars, queryVars, run>>
    /\ UNCHANGED linesRef
    /\ UNCHANGED listening

\* a compositionend event
HandleCompositionEnd ==
    /\ events.count < MaxEvents
    /\ state.composing
    /\ handleInput([state EXCEPT !.composing = FALSE, !.compositionTime = events.clock],
                   Delivered("compositionend"))
    /\ UNCHANGED <<todo, done, configVars, queryVars, run>>
    /\ UNCHANGED linesRef
    /\ UNCHANGED listening

\* a keydown event of Enter: its keybind runs insertNewlineAndIndent unless
\* a composition is going on or ended at most 100 ms ago
HandleKey ==
    /\ events.count < MaxEvents
    /\ IF state.composing \/ events.clock = state.compositionTime
       THEN /\ events' = [Delivered("keydown") EXCEPT !.ignored = @ + 1]
            /\ UNCHANGED <<parserVars, editorVars, state, undoStack, redoStack>>
       ELSE /\ \E r \in {insertNewlineAndIndent(lines, lineTypes, state.selection)} :
                UpdateDOMAt(state, r.lines, r.selection, TRUE)
            /\ events' = [Delivered("keydown") EXCEPT !.handled = @ + 1, !.renders = @ + 1]
    /\ UNCHANGED <<todo, done, configVars, queryVars, run>>
    /\ UNCHANGED linesRef
    /\ UNCHANGED listening

\* the focused editor after new Editor(root) with the default configuration
EventInit ==
    /\ lines = << <<>> >>
    /\ dom = << <<"<br>">> >>
    /\ mdLines = << <<"<br>">> >>
    /\ lineTypes = <<null>>
    /\ parseInput = << <<>> >>
    /\ openLog = <<NoOpen>>
    /\ before = << <<"<br>">> >>
    /\ written = {}
    /\ removed = {}
    /\ created = {}
    /\ todo = <<>>
    /\ done = 0
    /\ given = ModuleHeap
    /\ heap = defu(ModuleHeap, Undefined, "defaultConfig", "config").heap
    /\ ctor = [state |-> "done", root |-> TRUE, config |-> Undefined]
    /\ lookup = NoLookup
    /\ inline = NoInline(<<>>)
    /\ state = NoState
    /\ undoStack = <<[lines |-> << <<>> >>, selection |-> selectionFrom(0)]>>
    /\ redoStack = <<>>
    /\ linesRef = 0
    /\ listening = Listening
    /\ events = NoEvents
    /\ run = NoRun

EventNext ==
    \/ \E doc \in EventDocs : BrowserEdit(doc)
    \/ Tick
    \/ HandleInput
    \/ \E a \in 0..1 : \E b \in 0..1 : HandleSelection([start |-> a, end |-> b])
    \/ HandleCompositionStart
    \/ HandleCompositionEnd
    \/ HandleKey

EventSpec == EventInit /\ [][EventNext]_vars

(***************************************************************************)
(* src/src/editor.ts: undo and redo, and the edits of a focused editor     *)
(* that they take back: insertAtSelection, the handler of Tab and the      *)
(* click on a checkbox.  inline records the last operation and the editor  *)
(* before it.                                                              *)
(***************************************************************************)
MaxOps == 6

\* stack.pop(): the stack that is left
Pop_keeps(stack) == stack

Pop(stack) == SubSeq(stack, 1, Len(stack) - 1)

\* the entry on top of a stack
Top(stack) == stack[Len(stack)]

\* updateState(selection, true): the selection is written to the entry on
\* top of the undo stack, if there is one
WriteSelection(stack, selection) ==
    IF stack = <<>> THEN stack ELSE [stack EXCEPT ![Len(stack)].selection = selection]

\* undo() that takes back with a single entry too
undo_noFloor(us, rs) ==
    IF Len(us) < 1
    THEN [updated |-> FALSE, undoStack |-> us, redoStack |-> rs, lines |-> <<>>,
          selection |-> selectionFrom(0), ref |-> 0]
    ELSE [updated |-> TRUE,
          undoStack |-> us,
          redoStack |-> Append(rs, Top(us)),
          lines |-> Top(us).lines,
          selection |-> LimitSelection(Top(us).selection, Top(us).lines),
          ref |-> Len(us)]

\* undo() on the undo stack us and the redo stack rs: the stacks, the lines
\* and the selection that it leaves, and the entry whose array of lines
\* becomes Editor.lines
undo(us, rs) ==
    IF Len(us) < 2
    THEN [updated |-> FALSE, undoStack |-> us, redoStack |-> rs, lines |-> <<>>,
          selection |-> selectionFrom(0), ref |-> 0]
    ELSE LET currectState == Top(us)
             prevState == Top(Pop(us))
             limited == LimitSelection(prevState.selection, prevState.lines)
         IN  [updated |-> TRUE,
              undoStack |-> WriteSelection(Pop(us), limited),
              redoStack |-> Append(rs, currectState),
              lines |-> prevState.lines,
              selection |-> limited,
              ref |-> Len(Pop(us))]

\* redo() whose updateDOM pushes an entry
redo_pushUndo(us, rs) ==
    IF rs = <<>>
    THEN [updated |-> FALSE, undoStack |-> us, redoStack |-> rs, lines |-> <<>>,
          selection |-> selectionFrom(0), ref |-> 0]
    ELSE LET prevState == Top(rs)
             limited == LimitSelection(prevState.selection, prevState.lines)
         IN  [updated |-> TRUE,
              undoStack |-> Append(Append(us, [lines |-> prevState.lines,
                                               selection |-> limited]), prevState),
              redoStack |-> <<>>,
              lines |-> prevState.lines,
              selection |-> limited,
              ref |-> Len(us) + 2]

\* redo() on the undo stack us and the redo stack rs
redo(us, rs) ==
    IF rs = <<>>
    THEN [updated |-> FALSE, undoStack |-> us, redoStack |-> rs, lines |-> <<>>,
          selection |-> selectionFrom(0), ref |-> 0]
    ELSE LET prevState == Top(rs)
             limited == LimitSelection(prevState.selection, prevState.lines)
         IN  [updated |-> TRUE,
              undoStack |-> Append(WriteSelection(us, limited), prevState),
              redoStack |-> Pop(rs),
              lines |-> prevState.lines,
              selection |-> limited,
              ref |-> Len(us) + 1]

\* toggleCheckbox on the checkbox of the line num: the character between
\* the brackets is assigned in place
toggleCheckbox(ls, num) ==
    LET text == ls[num + 1]
        pos == RunLen(text, 0, Space) + 3
    IN  [lines |-> [ls EXCEPT ![num + 1] =
                        [text EXCEPT ![pos + 1] = IF @ = " " THEN "x" ELSE " "]],
         selection |-> selectionFrom(LineFrom(ls, num) + Len(text))]

\* newIndent of insertTabOrIndent with the default configuration
TabIndent(line) ==
    <<"\t">> \o ReplaceAll(SubSeq(line, 1, RunLen(line, 0, Space)),
                           [j \in 1..tabSize |-> " "], <<"\t">>)

\* the sum of selectionOffset over the lines a..b
RECURSIVE TabOffsets(_, _, _)
TabOffsets(ls, a, b) ==
    IF a > b THEN 0
    ELSE Len(TabIndent(ls[a + 1])) - RunLen(ls[a + 1], 0, Space) + TabOffsets(ls, a + 1, b)

\* insertTabOrIndent: the lines of the selection or the list item are
\* assigned in place, else a tab is inserted at the selection
insertTabOrIndent(ls, types, selection) ==
    LET startLine == LineAtLoop(ls, selection.start, 0, 0)
        endLine == LineAtLoop(ls, selection.end, 0, 0)
    IN  IF startLine.num # endLine.num
           \/ types[startLine.num + 1] \in {"TaskList", "UnorderedList", "OrderedList"}
        THEN [inPlace |-> TRUE,
              lines |-> [j \in 1..Len(ls) |->
                            IF j - 1 \in startLine.num..endLine.num
                            THEN TabIndent(ls[j]) \o From(ls[j], RunLen(ls[j], 0, Space))
                            ELSE ls[j]],
              selection |->
                  [start |-> selection.start + TabOffsets(ls, startLine.num, startLine.num),
                   end |-> selection.end + TabOffsets(ls, startLine.num, endLine.num)]]
        ELSE [inPlace |-> FALSE,
              lines |-> InsertAtSelection(ls, selection, <<"\t">>).lines,
              selection |-> InsertAtSelection(ls, selection, <<"\t">>).selection]

\* this.lines = newLines; this.updateDOM(selection) of the focused editor:
\* the lines that are parsed and written, the stacks and the selection after
\* it, and the array of lines, which is a new one
UpdateDOMFocused(newLines, selection) ==
    LET limited == LimitSelection(selection, newLines)
        pushed == Append(undoStack, [lines |-> newLines, selection |-> selection])
    IN  [lines |-> newLines,
         undoStack |-> [pushed EXCEPT ![Len(pushed)].selection = limited],
         redoStack |-> <<>>,
         selection |-> limited,
         ref |-> 0]

\* this.lines[i] = ... ; this.updateDOM(selection): the array of lines is
\* the one that linesRef names, so the entry that holds it sees the
\* assignment; a copy of the lines is pushed
UpdateDOMInPlace(newLines, selection) ==
    LET limited == LimitSelection(selection, newLines)
        shared == IF linesRef = 0 THEN undoStack
                  ELSE [undoStack EXCEPT ![linesRef].lines = newLines]
    IN  [lines |-> newLines,
         undoStack |-> Append(shared, [lines |-> newLines, selection |-> limited]),
         redoStack |-> <<>>,
         selection |-> limited,
         ref |-> linesRef]

\* the record of the operation op: the editor before it, the operation
\* before it with its lines, the states before the undos that are not yet
\* redone, and the state that a redo is to restore
HistoryRecord(op, changed, bases, back) ==
    [fn |-> op,
     arg |-> [lines |-> lines, dom |-> dom, undoStack |-> undoStack,
              redoStack |-> redoStack, changed |-> changed,
              prevFn |-> inline.fn, prevLines |-> inline.arg.lines, back |-> back],
     out |-> bases]

HistoryDocs == { << <<"-", " ", "[", " ", "]", " ", "a">> >>, << <<"a">>, <<"b">> >> }

\* the focused editor after new Editor(root, { content }) and a click that
\* puts the caret at the start or the end of the content
HistoryInit ==
    /\ \E doc \in HistoryDocs :
        /\ lines = doc
        /\ parseInput = doc
        /\ mdLines = Fresh(doc).lines
        /\ lineTypes = Fresh(doc).lineTypes
        /\ openLog = Fresh(doc).log
        /\ dom = Fresh(doc).lines
        /\ \E pos \in {0, Len(Content(doc))} :
            /\ state = [NoState EXCEPT !.selection = selectionFrom(pos)]
            /\ undoStack = <<[lines |-> doc, selection |-> selectionFrom(pos)]>>
        /\ inline = [fn |-> "none",
                     arg |-> [lines |-> doc, dom |-> Fresh(doc).lines,
                              undoStack |-> <<>>, redoStack |-> <<>>, changed |-> "none",
                              prevFn |-> "none", prevLines |-> doc, back |-> <<>>],
                     out |-> <<>>]
    /\ before = << <<"<br>">> >>
    /\ written = {}
    /\ removed = {}
    /\ created = {}
    /\ todo = <<>>
    /\ done = 0
    /\ given = ModuleHeap
    /\ heap = defu(ModuleHeap, Undefined, "defaultConfig", "config").heap
    /\ ctor = [state |-> "done", root |-> TRUE, config |-> Undefined]
    /\ lookup = NoLookup
    /\ redoStack = <<>>
    /\ linesRef = 0
    /\ listening = Listening
    /\ events = NoEvents
    /\ run = NoRun

\* the state that a later redo is to restore
Base == [lines |-> lines, undoLength |-> Len(undoStack), redoStack |-> redoStack]

\* an operation fn that calls updateDOM, which leaves u, and is recorded as
\* record
Updating(fn, u, record) ==
    [fn |-> fn, enabled |-> TRUE, updated |-> TRUE, lines |-> u.lines,
     undoStack |-> u.undoStack, redoStack |-> u.redoStack,
     selection |-> u.selection, ref |-> u.ref, record |-> record]

\* an operation fn that does not call updateDOM and leaves the undo stack us
\* and the selection
NotUpdating(fn, enabled, us, selection, record) ==
    [fn |-> fn, enabled |-> enabled, updated |-> FALSE, lines |-> lines,
     undoStack |-> us, redoStack |-> redoStack,
     selection |-> selection, ref |-> linesRef, record |-> record]

\* editor.insertAtSelection('a')
InsertHere ==
    LET r == InsertAtSelection(lines, state.selection, <<"a">>)
    IN  Updating("insert", UpdateDOMFocused(r.lines, r.selection),
                 HistoryRecord("insert", "edit", <<>>, <<>>))

\* the keybind of Tab runs insertTabOrIndent
PressTab ==
    LET r == insertTabOrIndent(lines, lineTypes, state.selection)
    IN  Updating("tab",
                 IF r.inPlace THEN UpdateDOMInPlace(r.lines, r.selection)
                 ELSE UpdateDOMFocused(r.lines, r.selection),
                 HistoryRecord("tab", "edit", <<>>, <<>>))

\* a click on the checkbox of the task list item in the line num
ClickCheckbox(num) ==
    IF lineTypes[num + 1] = "TaskList"
    THEN LET r == toggleCheckbox(lines, num)
         IN  Updating("checkbox", UpdateDOMInPlace(r.lines, r.selection),
                      HistoryRecord("checkbox", "edit", <<>>, <<>>))
    ELSE NotUpdating("checkbox", FALSE, undoStack, state.selection, inline)

\* a selectionchange event with the selection of the browser: updateState
SelectionChange(selection) ==
    NotUpdating("selectionchange",
                /\ selection.start <= selection.end
                /\ selection.end <= Len(Content(lines))
                /\ state.selection # selection,
                WriteSelection(undoStack, selection), selection,
                HistoryRecord("selectionchange", inline.arg.changed, <<>>, <<>>))

\* editor.undo()
Undo ==
    LET r == undo(undoStack, redoStack)
    IN  IF r.updated
        THEN Updating("undo", r,
                      HistoryRecord("undo", "undo", Append(inline.out, Base), <<>>))
        ELSE NotUpdating("undo", TRUE, undoStack, state.selection,
                         HistoryRecord("undo", inline.arg.changed, <<>>, <<>>))

\* editor.redo()
Redo ==
    LET r == redo(undoStack, redoStack)
    IN  IF r.updated
        THEN Updating("redo", r,
                      IF inline.out = <<>>
                      THEN HistoryRecord("redo", "redo", <<>>, <<>>)
                      ELSE HistoryRecord("redo", "redo",
                                         SubSeq(inline.out, 1, Len(inline.out) - 1),
                                         <<Top(inline.out)>>))
        ELSE NotUpdating("redo", TRUE, undoStack, state.selection,
                         HistoryRecord("redo", inline.arg.changed, <<>>, <<>>))

\* the operations on the editor
HistoryOps ==
    {InsertHere, PressTab, Undo, Redo}
        \cup {ClickCheckbox(num) : num \in 0..(Len(lines) - 1)}
        \cup {SelectionChange(selectionFrom(pos)) : pos \in {0, Len(Content(lines))}}
        \cup {SelectionChange([start |-> 0, end |-> Len(Content(lines))])}

\* one operation as one step: updateDOM parses and writes the lines if the
\* operation calls it
HistoryStep(op) ==
    /\ op.enabled
    /\ events.count < MaxOps
    /\ events' = Delivered(op.fn)
    /\ IF op.updated THEN UpdateDOM(op.lines)
       ELSE UNCHANGED <<parserVars, editorVars>>
    /\ undoStack' = op.undoStack
    /\ redoStack' = op.redoStack
    /\ state' = [state EXCEPT !.selection = op.selection]
    /\ linesRef' = op.ref
    /\ inline' = op.record
    /\ UNCHANGED <<todo, done, configVars, lookup, run>>
    /\ UNCHANGED listening

HistoryNext == \E op \in HistoryOps : HistoryStep(op)

HistorySpec == HistoryInit /\ [][HistoryNext]_vars

(***************************************************************************)
(* src/src/editor.ts: setup, destroy and the setter of readonly, and the   *)
(* events that the browser dispatches to the listeners of the editor.      *)
(***************************************************************************)
MaxDispatches == 2
MaxWirings == 2

EventTypes ==
    {"beforeinput", "input", "compositionstart", "compositionend", "keydown",
     "paste", "mousedown", "click", "selectionchange", "focus"}

\* the target at which the browser dispatches an event of the type
TargetOf(type) == IF type = "selectionchange" THEN "document" ELSE "root"

\* the listeners that the dispatch of an event of the type calls, in order
ListenersFor(list, type) ==
    SelectSeq(list, LAMBDA l : l.target = TargetOf(type) /\ l.type = type)

ListenDocs == { << <<"-", " ", "[", " ", "]", " ", "a">> >>, << <<"a">> >> }

\* the focused editor after new Editor(root, { content, readonly })
ListenInit ==
    /\ \E doc \in ListenDocs :
        /\ lines = doc
        /\ parseInput = doc
        /\ mdLines = Fresh(doc).lines
        /\ lineTypes = Fresh(doc).lineTypes
        /\ openLog = Fresh(doc).log
        /\ dom = Fresh(doc).lines
        /\ state = [NoState EXCEPT !.selection = selectionFrom(Len(Content(doc)))]
        /\ undoStack = <<[lines |-> doc, selection |-> selectionFrom(Len(Content(doc)))]>>
    /\ \E readonly \in BOOLEAN : \E isFirefox \in BOOLEAN :
        listening = IF readonly
                    THEN [NoListening EXCEPT !.isFirefox = isFirefox, !.readonly = TRUE]
                    ELSE setup([NoListening EXCEPT !.isFirefox = isFirefox])
    /\ before = << <<"<br>">> >>
    /\ written = {}
    /\ removed = {}
    /\ created = {}
    /\ todo = <<>>
    /\ done = 0
    /\ given = ModuleHeap
    /\ heap = defu(ModuleHeap, Undefined, "defaultConfig", "config").heap
    /\ ctor = [state |-> "done", root |-> TRUE, config |-> Undefined]
    /\ lookup = NoLookup
    /\ inline = NoInline(<<>>)
    /\ redoStack = <<>>
    /\ linesRef = 0
    /\ events = NoEvents
    /\ run = NoRun

\* editor.readonly = readonly
SetReadonly(readonly) ==
    /\ listening.pending = <<>>
    /\ listening.changes < MaxWirings
    /\ listening' = [SetReadonlyOf(listening, readonly) EXCEPT !.changes = @ + 1]
    /\ UNCHANGED <<parserVars, editorVars, todo, done, configVars, queryVars,
                   state, undoStack, redoStack, linesRef, events, run>>

\* editor.destroy()
Destroy ==
    /\ listening.pending = <<>>
    /\ listening.changes < MaxWirings
    /\ listening' = [destroy(listening) EXCEPT !.changes = @ + 1]
    /\ UNCHANGED <<parserVars, editorVars, todo, done, configVars, queryVars,
                   state, undoStack, redoStack, linesRef, events, run>>

\* the browser dispatches an event of the type: its listeners are to be
\* called
Dispatch(type) ==
    /\ listening.pending = <<>>
    /\ events.count < MaxDispatches
    /\ listening' = [listening EXCEPT !.pending = ListenersFor(listening.listeners, type)]
    /\ events' = Delivered(type)
    /\ UNCHANGED <<parserVars, editorVars, todo, done, configVars, queryVars,
                   state, undoStack, redoStack, linesRef, run>>

\* the record of the handlers after a listener was called
Handled == [events EXCEPT !.handled = @ + 1]

\* a handler that calls updateDOM, which leaves u, with the state st before
\* the selection is set
Update(st, u) ==
    [updated |-> TRUE, lines |-> u.lines, undoStack |-> u.undoStack,
     redoStack |-> u.redoStack, state |-> [st EXCEPT !.selection = u.selection],
     ref |-> u.ref, events |-> Handled]

\* a handler that returns without an update
NoUpdate(st) ==
    [updated |-> FALSE, lines |-> lines, undoStack |-> undoStack,
     redoStack |-> redoStack, state |-> st, ref |-> linesRef, events |-> Handled]

\* setSelection(selection) or updateState(selection): the selection is
\* written to the state and to the entry on top of the undo stack
SelectOnly(selection) ==
    [updated |-> FALSE, lines |-> lines,
     undoStack |-> WriteSelection(undoStack, selection), redoStack |-> redoStack,
     state |-> [state EXCEPT !.selection = selection], ref |-> linesRef,
     events |-> Handled]

\* handleBeforeInput of an event with the inputType historyUndo: undo()
handleBeforeInput ==
    LET r == undo(undoStack, redoStack)
    IN  {IF r.updated THEN Update(state, r) ELSE NoUpdate(state)}

\* handleInput of the listener: nothing during a composition, else
\* updateLines() and updateDOM() at the caret of the browser, which is at the
\* start or at the end of the content
handleInputOf(st) ==
    IF st.composing
    THEN {[NoUpdate(st) EXCEPT !.events = [Handled EXCEPT !.ignored = @ + 1]]}
    ELSE LET newLines == updateLines(dom)
         IN  {[Update(st, UpdateDOMFocused(newLines, selectionFrom(pos)))
                   EXCEPT !.events = [Handled EXCEPT !.reads = @ + 1, !.renders = @ + 1]] :
                 pos \in {0, Len(Content(newLines))}}

\* handleCompositionStart
handleCompositionStart ==
    IF state.selection.start # state.selection.end
    THEN LET r == InsertAtSelection(lines, state.selection, <<>>)
         IN  {Update([state EXCEPT !.composing = TRUE],
                     UpdateDOMFocused(r.lines, r.selection))}
    ELSE {NoUpdate([state EXCEPT !.composing = TRUE])}

\* handleCompositionEnd
handleCompositionEnd ==
    handleInputOf([state EXCEPT !.composing = FALSE, !.compositionTime = events.clock])

\* handleKey of the key Enter
handleKey ==
    IF state.composing \/ events.clock = state.compositionTime
    THEN {NoUpdate(state)}
    ELSE LET r == insertNewlineAndIndent(lines, lineTypes, state.selection)
         IN  {Update(state, [UpdateDOMFocused(r.lines, r.selection)
                                 EXCEPT !.ref = linesRef])}

\* handlePaste of the clipboard text 'a'
handlePaste ==
    LET r == InsertAtSelection(lines, state.selection, <<"a">>)
    IN  {Update(state, UpdateDOMFocused(r.lines, r.selection))}

\* handleMouseDown of the third click of a triple click beside a checkbox:
\* the line of the caret is selected
handleMouseDown ==
    LET at == LineAtLoop(lines, state.selection.start, 0, 0)
    IN  {SelectOnly(LimitSelection([start |-> at.from,
                                    end |-> at.from + Len(lines[at.num + 1])], lines))}

\* handleClick of a click on the checkbox of the first line, or beside it
\* when the line has none
handleClick ==
    IF lineTypes[1] = "TaskList"
    THEN LET r == toggleCheckbox(lines, 0)
         IN  {Update(state, UpdateDOMInPlace(r.lines, r.selection))}
    ELSE {NoUpdate(state)}

\* handleSelection: updateState() with the selection of the browser, the
\* caret at the start or the end of the content
handleSelection ==
    {IF state.composing \/ state.selection # selectionFrom(pos)
     THEN SelectOnly(selectionFrom(pos))
     ELSE NoUpdate(state) : pos \in {0, Len(Content(lines))}}

\* what the listener with the handler does
Listener(handler) ==
    CASE handler = "beforeinput" -> handleBeforeInput
      [] handler = "input" -> handleInputOf(state)
      [] handler = "compositionstart" -> handleCompositionStart
      [] handler = "compositionend" -> handleCompositionEnd
      [] handler = "key" -> handleKey
      [] handler = "paste" -> handlePaste
      [] handler = "mousedown" -> handleMouseDown
      [] handler = "click" -> handleClick
      [] handler = "selection" -> handleSelection

\* the dispatch calls the next listener of the event: updateDOM parses and
\* writes the lines if the handler calls it
RunListener ==
    /\ listening.pending # <<>>
    /\ listening' = [listening EXCEPT !.pending = Tail(@)]
    /\ \E r \in Listener(Head(listening.pending).handler) :
        /\ IF r.updated THEN UpdateDOM(r.lines)
           ELSE UNCHANGED <<parserVars, editorVars>>
        /\ undoStack' = r.undoStack
        /\ redoStack' = r.redoStack
        /\ state' = r.state
        /\ linesRef' = r.ref
        /\ events' = r.events
    /\ UNCHANGED <<todo, done, configVars, queryVars, run>>

ListenNext ==
    \/ \E readonly \in BOOLEAN : SetReadonly(readonly)
    \/ Destroy
    \/ \E type \in EventTypes : Dispatch(type)
    \/ RunListener

ListenSpec == ListenInit /\ [][ListenNext]_vars

(***************************************************************************)
(* src/src/markdown.ts: MarkdownParser.parse, statement by statement, with *)
(* a line grammar whose callbacks read the parser and may raise an error.  *)
(***************************************************************************)
\* this.lines and this.lineTypes as a reader finds them
ParserFields == [lines |-> mdLines, lineTypes |-> lineTypes]

StepTexts ==
    { T("a", "", "", "", ""),        \* a
      T("#", " ", "a", "", ""),      \* # a
      T(BT, BT, BT, "", "") }        \* a fence

\* parse(lines) is entered: this.lines = [] and this.lineTypes = []
StepBegin ==
    /\ run.pc # "loop"
    /\ done < Len(todo)
    /\ mdLines' = <<>>
    /\ lineTypes' = <<>>
    /\ openLog' = <<>>
    /\ parseInput' = todo[done + 1]
    /\ run' = [pc |-> "loop", lineNum |-> 0, input |-> todo[done + 1],
               prev |-> ParserFields, seen |-> <<>>]
    /\ UNCHANGED <<todo, done, editorVars, configVars, queryVars, sessionVars>>

\* one iteration of the loop over the lines: the callbacks of the rules run
\* and see the fields of the parser; a callback raises an error, which ends
\* the call, or the line and its type are pushed
StepLine(throws) ==
    /\ run.pc = "loop"
    /\ run.lineNum < Len(run.input)
    /\ \E open \in {IF openLog = <<>> THEN NoOpen ELSE openLog[Len(openLog)]} :
       \E r \in {ParseLine(run.input[run.lineNum + 1], open.openType, open.openMatch)} :
        IF throws
        THEN /\ run' = [run EXCEPT !.pc = "failed", !.seen = Append(@, ParserFields)]
             /\ done' = done + 1
             /\ UNCHANGED parserVars
        ELSE /\ mdLines' = Append(mdLines, r.html)
             /\ lineTypes' = Append(lineTypes, r.lineType)
             /\ openLog' = Append(openLog, [openType |-> r.openType, openMatch |-> r.openMatch])
             /\ run' = [run EXCEPT !.lineNum = @ + 1, !.seen = Append(@, ParserFields)]
             /\ UNCHANGED <<done, parseInput>>
    /\ UNCHANGED <<todo, editorVars, configVars, queryVars, sessionVars>>

\* return this.lines
StepReturn ==
    /\ run.pc = "loop"
    /\ run.lineNum = Len(run.input)
    /\ run' = [run EXCEPT !.pc = "done"]
    /\ done' = done + 1
    /\ UNCHANGED <<todo, parserVars, editorVars, configVars, queryVars, sessionVars>>

\* a new parser and the two documents that its client parses
StepInit ==
    /\ ParserNew
    /\ EditorIdle
    /\ QueryIdle
    /\ ConfigIdle
    /\ SessionIdle
    /\ done = 0
    /\ todo \in {<<p, d>> : p \in DocsOf(StepTexts, 1), d \in DocsOf(StepTexts, MaxLines)}

StepNext ==
    \/ StepBegin
    \/ \E throws \in BOOLEAN : StepLine(throws)
    \/ StepReturn

StepSpec == StepInit /\ [][StepNext]_vars

(***************************************************************************)
(* src/unnamed/part_007: the earlier updateDOM, which compares the lines   *)
(* that the parser held before the parse with the lines it returns.  The   *)
(* children of the root hold the lines of before.                          *)
(***************************************************************************)
\* while (start < len && before[start] === after[start]) start++
RECURSIVE RangeStart(_, _, _, _)
RangeStart(old, after, len, start) ==
    IF start < len /\ LineAt(old, start) = LineAt(after, start)
    THEN RangeStart(old, after, len, start + 1)
    ELSE start

\* while (end - 1 > start && before[end - Math.max(delta, 0)]
\*                            === after[end - Math.min(delta, 0)]) end--
RECURSIVE RangeEnd(_, _, _, _, _)
RangeEnd(old, after, delta, start, end) ==
    IF /\ end - 1 > start
       /\ LineAt(old, end - Max2(delta, 0)) = LineAt(after, end - Min2(delta, 0))
    THEN RangeEnd(old, after, delta, start, end - 1)
    ELSE end

\* the loop that removes children[start], if there is one, for every i
\* from start to last
RECURSIVE RangeRemove(_, _, _, _)
RangeRemove(children, start, i, last) ==
    IF i > last THEN children
    ELSE RangeRemove(IF start < Len(children)
                     THEN SubSeq(children, 1, start) \o SubSeq(children, start + 2, Len(children))
                     ELSE children,
                     start, i + 1, last)

\* the loop that inserts a new element for after[i] before children[i], or
\* at the end where there is no such child, for every i up to end
RECURSIVE RangeInsert(_, _, _, _)
RangeInsert(children, after, i, end) ==
    IF i > end THEN children
    ELSE IF i >= Len(after) THEN RangeInsert(children, after, i + 1, end)
    ELSE RangeInsert(IF i < Len(children)
                     THEN SubSeq(children, 1, i) \o <<after[i + 1]>>
                          \o SubSeq(children, i + 1, Len(children))
                     ELSE Append(children, after[i + 1]),
                     after, i + 1, end)

\* the children of the root after updateDOM, the parser having held old
\* and returning after
RangeUpdateDOM(children, old, after) ==
    LET delta == Len(after) - Len(old)
        len == Max2(Len(old), Len(after))
        start == RangeStart(old, after, len, 0)
        end == RangeEnd(old, after, delta, start, len - 1)
    IN  IF delta = 0
        THEN [i \in 1..Len(children) |->
                IF old[i] # after[i] THEN after[i] ELSE children[i]]
        ELSE RangeInsert(RangeRemove(children, start, start, end - Max2(delta, 0)),
                         after, start, end)

\* the rendered lines: one token each
RangeLines == UNION {[1..k -> {<<"x">>, <<"y">>}] : k \in 1..MaxRangeLen}

\* an editor whose parser and root hold the lines old, and new lines
RangeInit == InlineInit({[old |-> o, new |-> n] : o \in RangeLines, n \in RangeLines})

RangeCall ==
    InlineCall("updateDOM", RangeUpdateDOM(inline.arg.old, inline.arg.old, inline.arg.new))

RangeNext == RangeCall

RangeSpec == RangeInit /\ [][RangeNext]_vars

(***************************************************************************)
(* src/src/editor.ts: the constructor, called with a configuration whose   *)
(* line grammar the caller wrote.                                          *)
(***************************************************************************)
\* the names a caller gives its rules: names of defaultLineGrammar, a name of
\* defaultInlineGrammar and a new name
OverrideNames == {"BlockQuote", "CodeBlock", "UnorderedList", "Escape", "Subtext"}

\* the values a caller maps a name to
OverrideValues == {Ref("disableRule"), Ref("customRule"), Null}

\* the line grammars of a caller: up to MaxOverrides names, each written once
OverrideGrammars ==
    {g \in UNION {[1..n -> OverrideNames \X OverrideValues] : n \in 0..MaxOverrides} :
        \A i, j \in 1..Len(g) : i # j => g[i][1] # g[j][1]}

\* the heap after the caller wrote { markdown: { lineGrammar: g } }
CallerHeap(g) ==
    [ModuleHeap EXCEPT
        !["config"] = <<<<"markdown", Ref("config.markdown")>>>>,
        !["config.markdown"] = <<<<"lineGrammar", Ref("config.lineGrammar")>>>>,
        !["config.lineGrammar"] = g,
        !["customRule"] = customRule]

\* the state right before new Editor(root, config)
MergeInit ==
    /\ ParserNew
    /\ EditorIdle
    /\ QueryIdle
    /\ SessionIdle
    /\ todo = <<>>
    /\ done = 0
    /\ \E root \in BOOLEAN :
        \/ /\ given = ModuleHeap
           /\ ctor = [state |-> "new", root |-> root, config |-> Undefined]
        \/ \E g \in OverrideGrammars :
            /\ given = CallerHeap(g)
            /\ ctor = [state |-> "new", root |-> root, config |-> Ref("config")]
    /\ heap = given

\* new Editor(root, config): throws when the element does not exist, else
\* merges the defaults into the configuration and shows the empty content
Construct ==
    /\ ctor.state = "new"
    /\ IF ~ctor.root
       THEN /\ ctor' = [ctor EXCEPT !.state = "threw"]
            /\ UNCHANGED <<heap, parserVars, editorVars>>
       ELSE /\ ctor' = [ctor EXCEPT !.state = "done"]
            /\ heap' = defu(heap, ctor.config, "defaultConfig", "config").heap
            /\ lines' = << <<>> >>
            /\ dom' = << <<"<br>">> >>
            /\ mdLines' = << <<"<br>">> >>
            /\ lineTypes' = <<null>>
            /\ parseInput' = << <<>> >>
            /\ openLog' = <<NoOpen>>
            /\ before' = << <<"<br>">> >>
            /\ written' = {}
            /\ removed' = {}
            /\ created' = {}
    /\ UNCHANGED <<given, todo, done, queryVars, sessionVars, run>>

MergeNext == Construct

MergeSpec == MergeInit /\ [][MergeNext]_vars

(***************************************************************************)
(* Properties of the merged configuration.                                 *)
(***************************************************************************)
\* this.config.markdown.lineGrammar after the constructor
LineRegistry == heap[Get(heap[Get(heap["config"], "markdown")[2]], "lineGrammar")[2]]

\* the line grammar as the caller wrote it
CallerGrammar == given["config.lineGrammar"]

DefaultLineNames == {LineGrammarKeys[j] : j \in 1..Len(LineGrammarKeys)}

\* C12: a rule that the caller maps a name of the default line grammar to is
\* the entry of that name in the merged grammar, with the fields the caller
\* gave it and no others: no field of the default rule is in it.  So the
\* entry of a name mapped to disableRule has no regex, open, line or close.
C12_OverrideReplacesWholesale ==
    ctor.state = "done" =>
        \A j \in 1..Len(CallerGrammar) :
            LET name == CallerGrammar[j][1]
                rule == CallerGrammar[j][2]
            IN  (name \in DefaultLineNames /\ isPlainObject(rule)) =>
                    /\ Get(LineRegistry, name) = rule
                    /\ heap[rule[2]] = given[rule[2]]

\* C13: the names of the default line grammar come in the merged grammar in
\* the order they have in the defaults, whether the caller overrides them or
\* not.
C13_OverrideKeepsPosition ==
    ctor.state = "done" =>
        SelectSeq(Keys(LineRegistry), LAMBDA name : name \in DefaultLineNames)
            = LineGrammarKeys

\* C14: the constructor, given an element, ends with an error whenever a rule
\* of the caller has the name of a rule of the default line or inline
\* grammar, and merges or replaces nothing.
C14_DuplicateNameRejected ==
    (ctor.state # "new" /\ ctor.root) =>
        \A j \in 1..Len(CallerGrammar) :
            (CallerGrammar[j][1] \in DefaultRuleNames /\ isPlainObject(CallerGrammar[j][2])) =>
                /\ ctor.state = "threw"
                /\ heap = given

(***************************************************************************)
(* Properties of Editor.updateDOM.                                         *)
(***************************************************************************)
\* length of the longest common prefix of two sequences
CommonPrefix(a, b) ==
    CHOOSE p \in 0..Min2(Len(a), Len(b)) :
        /\ SubSeq(a, 1, p) = SubSeq(b, 1, p)
        /\ \A q \in (p + 1)..Min2(Len(a), Len(b)) : SubSeq(a, 1, q) # SubSeq(b, 1, q)

\* length of the longest common suffix of two sequences
CommonSuffix(a, b) ==
    CHOOSE k \in 0..Min2(Len(a), Len(b)) :
        /\ From(a, Len(a) - k) = From(b, Len(b) - k)
        /\ \A q \in (k + 1)..Min2(Len(a), Len(b)) : From(a, Len(a) - q) # From(b, Len(b) - q)

\* C1: after updateDOM the line elements of the editor hold exactly the
\* lines that parse returned: same count, same order, same content.
C1_ReplayLaw == dom = mdLines

C3_WitnessOverlap ==
    /\ Len(before) = 2
    /\ Len(mdLines) = 3
    /\ CommonSuffix(before, mdLines) = 2
    /\ CommonPrefix(before, mdLines) = 2
    /\ created = {2}
    /\ removed = {}

(***************************************************************************)
(* Properties of MarkdownParser.parse.                                     *)
(***************************************************************************)
\* the classifier state when line i (1-based) of the last input is reached
OpenBefore(i) == IF i = 1 THEN NoOpen ELSE openLog[i - 1]

\* parse has recorded one rendering, one tag and one classifier state per line
Recorded ==
    /\ Len(mdLines) = Len(parseInput)
    /\ Len(lineTypes) = Len(parseInput)
    /\ Len(openLog) = Len(parseInput)

\* line satisfies the close condition of the block that is open with capture o
Closes(line, o) == RuleClose(o.openType, line, o.openMatch) # NoMatch

\* the rule of the grammar with the given key matches the line in Scanning state
Matches(type, line) ==
    IF HasRegex(type) THEN RegexExec(type, line) # NoMatch
    ELSE RuleOpen(type, line) # NoMatch

\* C4: while a block is open, a line that does not satisfy the block's close
\* condition is rendered by the block's middle-line renderer and tagged with
\* the block's key, whatever rule it would match in Scanning state, and the
\* open block and its capture stay as they are: no second block is opened.
C4_RawInsideBlock ==
    /\ Recorded
    /\ \A i \in 1..Len(parseInput) :
        LET o == OpenBefore(i)
            line == parseInput[i]
        IN  (o.openType # null /\ ~Closes(line, o)) =>
                /\ mdLines[i] = RuleLine(o.openType, line)
                /\ lineTypes[i] = o.openType
                /\ openLog[i] = o

\* a heading and a block opener that does not close, both inside of an open block
C4_Witness ==
    /\ Recorded
    /\ \E i, j \in 1..Len(parseInput) :
        /\ OpenBefore(i).openType = "CodeBlock"
        /\ Matches("ATXHeading", parseInput[i])
        /\ lineTypes[i] = "CodeBlock"
        /\ OpenBefore(j).openType = "CodeBlock"
        /\ Matches("CodeBlock", parseInput[j])
        /\ ~Closes(parseInput[j], OpenBefore(j))
        /\ lineTypes[j] = "CodeBlock"

\* C5: the line that satisfies the close condition of the open block gets the
\* close rendering and the block's key, and the following line is classified
\* as in Scanning state; a line that does not close leaves the classifier in
\* the block with the same key and the same open capture.
C5_CloseReturnsToScanning ==
    /\ Recorded
    /\ \A i \in 1..Len(parseInput) :
        LET o == OpenBefore(i)
            line == parseInput[i]
        IN  o.openType # null =>
                IF Closes(line, o)
                THEN /\ mdLines[i] = RuleClose(o.openType, line, o.openMatch)
                     /\ lineTypes[i] = o.openType
                     /\ openLog[i] = NoOpen
                     /\ i < Len(parseInput) =>
                            LET next == parseInput[i + 1]
                                scan == ScanRules(next, 1, parseInline(next))
                            IN  /\ lineTypes[i + 1] = scan.lineType
                                /\ mdLines[i + 1] = scan.html
                ELSE openLog[i] = o

\* a closing line that is followed by a heading
C5_Witness ==
    /\ Recorded
    /\ \E i \in 1..(Len(parseInput) - 1) :
        /\ OpenBefore(i).openType = "CodeBlock"
        /\ Closes(parseInput[i], OpenBefore(i))
        /\ lineTypes[i] = "CodeBlock"
        /\ lineTypes[i + 1] = "ATXHeading"

\* the key of the first rule of the grammar that matches the line, or null
MatchedKey(line) ==
    LET ks == {k \in 1..Len(LineGrammarKeys) : Matches(LineGrammarKeys[k], line)}
    IN  IF ks = {} THEN null ELSE LineGrammarKeys[Min(ks)]

BacktickRun(line, n) == Len(line) >= n /\ \A j \in 1..Len(line) : line[j] = BT

\* the line is a run of at least n backticks between optional white space
Fence(line, n) ==
    LET core == {j \in 1..Len(line) : line[j] \notin Space}
    IN  /\ Cardinality(core) >= n
        /\ \A j \in 1..Len(line) :
            (\E a, b \in core : a <= j /\ j <= b) => line[j] = BT

\* C7 as stated: an open code block is closed by every line that consists of
\* a run of three or more backticks, whatever the length of the opening run.
C7_ClosedByAnyFence ==
    /\ Recorded
    /\ \A i \in 1..Len(parseInput) :
        (OpenBefore(i).openType = "CodeBlock" /\ BacktickRun(parseInput[i], 3)) =>
            /\ openLog[i] = NoOpen
            /\ lineTypes[i] = "CodeBlock"

\* C7 amended: a code block opened with a run of N backticks is closed by
\* the first later line that is a run of at least N backticks between
\* optional white space, and by no other line; the closing line is tagged
\* CodeBlock and the lines before it are rendered as code-block content.
C7_ClosedByLongEnoughFence ==
    /\ Recorded
    /\ \A i \in 1..Len(parseInput) :
        LET o == OpenBefore(i)
            line == parseInput[i]
        IN  o.openType = "CodeBlock" =>
                /\ lineTypes[i] = "CodeBlock"
                /\ (openLog[i] = NoOpen) <=> Fence(line, Len(o.openMatch[2]))
                /\ ~Fence(line, Len(o.openMatch[2])) =>
                        mdLines[i] = CodeBlockLine(line)

\* a block opened with four backticks: a fence of three is content, one of four closes
C7_Witness ==
    /\ Recorded
    /\ Len(parseInput) = 3
    /\ OpenBefore(2).openType = "CodeBlock"
    /\ Len(OpenBefore(2).openMatch[2]) = 4
    /\ BacktickRun(parseInput[2], 3)
    /\ openLog[2].openType = "CodeBlock"
    /\ BacktickRun(parseInput[3], 4)
    /\ openLog[3] = NoOpen
    /\ lineTypes = <<"CodeBlock", "CodeBlock", "CodeBlock">>

C9_EmptyLinePlaceholder ==
    /\ Len(mdLines) = Len(parseInput)
    /\ \A i \in 1..Len(parseInput) :
        parseInput[i] = <<>> =>
            mdLines[i] = IF OpenBefore(i).openType = null
                         THEN <<"<br>">>
                         ELSE <<"<code class=\"md-code-block\">", "<br>", "</code>">>

\* an empty line inside of a block and an empty line outside
C9_Witness ==
    /\ Recorded
    /\ \E i, j \in 1..Len(parseInput) :
        /\ parseInput[i] = <<>> /\ OpenBefore(i).openType = null
        /\ mdLines[i] = <<"<br>">>
        /\ parseInput[j] = <<>> /\ OpenBefore(j).openType = "CodeBlock"

\* C10: whatever calls were made before, parse(L) returns the rendered lines
\* and records the line types that a first call with L returns.
C10_HistoryFree ==
    /\ mdLines = Fresh(parseInput).lines
    /\ lineTypes = Fresh(parseInput).lineTypes

\* a second call after a call whose input ended inside of an open block
C10_Witness ==
    /\ done = 2
    /\ Fresh(todo[1]).openType = "CodeBlock"
    /\ Len(parseInput) >= 1
    /\ lineTypes[1] = null

\* the keys of the rules of the grammar that match the line, as indices
MatchingKeys(line) == {k \in 1..Len(LineGrammarKeys) : Matches(LineGrammarKeys[k], line)}

\* the rendering that the rule with the given key gives the line
RenderedBy(type, line) ==
    IF HasRegex(type) THEN RuleReplace(type, RegexExec(type, line))
    ELSE RuleOpenReplacement(type, RuleOpen(type, line))

\* C11: a line that is reached with no block open and that is matched by
\* one or more rules gets the tag and the rendering of the matching rule that
\* comes first in the grammar; * * * and - - - are tagged ThematicBreak and
\* - [x] a is tagged TaskList, none of them UnorderedList.
C11_FirstMatchWins ==
    /\ Recorded
    /\ \A i \in 1..Len(parseInput) :
        LET line == parseInput[i]
            ks == MatchingKeys(line)
        IN  (OpenBefore(i).openType = null /\ ks # {}) =>
                /\ lineTypes[i] = LineGrammarKeys[Min(ks)]
                /\ mdLines[i] = RenderedBy(LineGrammarKeys[Min(ks)], line)
                /\ line \in {StarBreak, DashBreak} => lineTypes[i] = "ThematicBreak"
                /\ line = CheckedTask => lineTypes[i] = "TaskList"

\* a document with a thematic break and a task that the list rule matches too
C11_Witness ==
    /\ Recorded
    /\ \E i, j \in 1..Len(parseInput) :
        /\ parseInput[i] \in {StarBreak, DashBreak}
        /\ Matches("UnorderedList", parseInput[i])
        /\ lineTypes[i] = "ThematicBreak"
        /\ parseInput[j] = CheckedTask
        /\ Matches("UnorderedList", parseInput[j])
        /\ lineTypes[j] = "TaskList"

(***************************************************************************)
(* Properties of Editor.line and Editor.lineAt.                            *)
(***************************************************************************)
\* the length of the content: the characters of the lines and one line break
\* between two lines
RECURSIVE TotalLength(_)
TotalLength(ls) ==
    IF Len(ls) = 0 THEN 0
    ELSE IF Len(ls) = 1 THEN Len(ls[1])
    ELSE Len(ls[1]) + 1 + TotalLength(Tail(ls))

C15_WitnessError ==
    /\ lookup.op = "line"
    /\ lookup.arg = Len(lines)
    /\ lookup.error = "RangeError"

(***************************************************************************)
(* Properties of the functions of the inline grammar.                      *)
(***************************************************************************)
\* the entity of a character that HTML gives a meaning, the character else
EntityOf(c) ==
    CASE c = "&" -> <<"&", "a", "m", "p", ";">>
      [] c = "<" -> <<"&", "l", "t", ";">>
      [] c = ">" -> <<"&", "g", "t", ";">>
      [] OTHER -> <<c>>

\* every character of the text replaced by its entity, once
RECURSIVE EscapeEach(_)
EscapeEach(str) == IF Len(str) = 0 THEN <<>> ELSE EntityOf(str[1]) \o EscapeEach(Tail(str))

\* what a reader of HTML makes of the three entities, from left to right
RECURSIVE DecodeEntities(_)
DecodeEntities(html) ==
    IF Len(html) = 0 THEN <<>>
    ELSE IF Len(html) >= 5 /\ SubSeq(html, 1, 5) = EntityOf("&")
         THEN <<"&">> \o DecodeEntities(From(html, 5))
    ELSE IF Len(html) >= 4 /\ SubSeq(html, 1, 4) = EntityOf("<")
         THEN <<"<">> \o DecodeEntities(From(html, 4))
    ELSE IF Len(html) >= 4 /\ SubSeq(html, 1, 4) = EntityOf(">")
         THEN <<">">> \o DecodeEntities(From(html, 4))
    ELSE <<html[1]>> \o DecodeEntities(Tail(html))

\* C16: escapeHTML(s) is s with every &, < and > replaced by its entity, once:
\* it holds no < and no >, and decoding the entities gives back s.
C16_EscapedOnce ==
    inline.fn = "escapeHTML" =>
        /\ inline.out = EscapeEach(inline.arg)
        /\ \A j \in 1..Len(inline.out) : inline.out[j] \notin {"<", ">"}
        /\ DecodeEntities(inline.out) = inline.arg

\* the index of the token that ends the value of the first href attribute
\* for a reader of HTML: the first double quote after the token that opens it
HrefOpen(html) == Min({j \in 1..Len(html) : html[j] = "<a href=\""})
HrefClose(html) ==
    Min({j \in (HrefOpen(html) + 1)..Len(html) : html[j] \in {"\"", "\">"}})

\* C17: in the HTML of a bare link or a link in angle brackets the value of
\* href ends at the quote that the rule wrote, and neither a double quote
\* nor a < or > of the text stands in it.
C17_HrefNotEnded ==
    (inline.fn \in {"URL", "Autolink"} /\ inline.out.match # NoMatch) =>
        LET html == inline.out.html
        IN  /\ html[HrefClose(html)] = "\">"
            /\ \A j \in (HrefOpen(html) + 1)..(HrefClose(html) - 1) :
                    html[j] \notin {"\"", "<", ">"}

\* the path neither ends in a character of the trim set nor in a closing
\* parenthesis that has no opening one in the path
PathEndsWell(path) ==
    \/ Len(path) = 0
    \/ /\ path[Len(path)] \notin TrimChar
       /\ ~(path[Len(path)] = ")" /\ Count(path, ")") > Count(path, "("))

\* C19: when the bare-link rule matches, the link it returns is the start of
\* the raw match followed by the longest prefix of the raw path that ends
\* well; nothing of the protocol and authority is removed.
C19_TrimmedToLongestGoodPrefix ==
    (inline.fn = "URL" /\ inline.out.match # NoMatch) =>
        LET raw == URLRegex(inline.arg)
            url == inline.out.match[1]
            kept == Len(url) - Len(raw[1])
        IN  /\ kept >= 0
            /\ kept <= Len(raw[2])
            /\ url = raw[1] \o SubSeq(raw[2], 1, kept)
            /\ PathEndsWell(SubSeq(raw[2], 1, kept))
            /\ \A n \in (kept + 1)..Len(raw[2]) : ~PathEndsWell(SubSeq(raw[2], 1, n))

\* a path of punctuation and a closing parenthesis only: all but the slash is removed
C19_Witness ==
    /\ inline.fn = "URL"
    /\ inline.out.match # NoMatch
    /\ URLRegex(inline.arg)[2] = <<"/", ")", ".">>
    /\ inline.out.match[1] = URLRegex(inline.arg)[1] \o <<"/">>

\* a path whose closing parenthesis has an opening one: nothing is removed
C19_WitnessBalanced ==
    /\ inline.fn = "URL"
    /\ inline.out.match # NoMatch
    /\ URLRegex(inline.arg)[2] = <<"/", "(", ")">>
    /\ inline.out.match[1] = inline.arg

\* a run of exactly n backticks starts at s[i], with no backtick before it
\* and none after it
BacktickRunAt(s, i, n) ==
    /\ i >= 1
    /\ i + n - 1 <= Len(s)
    /\ \A j \in i..(i + n - 1) : s[j] = BT
    /\ i = 1 \/ s[i - 1] # BT
    /\ i + n > Len(s) \/ s[i + n] # BT

\* the length of the run of backticks that s starts with
OpeningRun(s) ==
    CHOOSE n \in 0..Len(s) : /\ \A j \in 1..n : s[j] = BT
                             /\ n = Len(s) \/ s[n + 1] # BT

\* the places after the opening run where a run of the same length starts
ClosingRuns(s) ==
    {i \in (OpeningRun(s) + 1)..Len(s) : BacktickRunAt(s, i, OpeningRun(s))}

\* C18: on a text that starts with a run of N backticks InlineCode.match
\* succeeds exactly when a later run of exactly N backticks exists; the
\* match ends with the first such run, the content is the text between the
\* two runs, whatever shorter or longer runs it holds, and the mark is the
\* opening run.  Without such a run the rule does not match.
C18_CodeSpanClosedByEqualRun ==
    inline.fn = "InlineCode" /\ OpeningRun(inline.arg) > 0 =>
        \E n \in {OpeningRun(inline.arg)} :
            IF ClosingRuns(inline.arg) = {}
            THEN inline.out.match = NoMatch
            ELSE \E c \in {Min(ClosingRuns(inline.arg))} :
                    inline.out.match = << SubSeq(inline.arg, 1, c + n - 1),
                                          SubSeq(inline.arg, n + 1, c - 1),
                                          SubSeq(inline.arg, 1, n) >>

\* a span of one backtick whose content holds a run of two
C18_Witness ==
    /\ inline.fn = "InlineCode"
    /\ inline.out.match # NoMatch
    /\ Len(inline.out.match[3]) = 1
    /\ \E i \in 1..Len(inline.out.match[2]) : BacktickRunAt(inline.out.match[2], i, 2)

\* a span of two backticks whose content holds a single backtick
C18_WitnessShorter ==
    /\ inline.fn = "InlineCode"
    /\ inline.out.match # NoMatch
    /\ Len(inline.out.match[3]) = 2
    /\ \E i \in 1..Len(inline.out.match[2]) : BacktickRunAt(inline.out.match[2], i, 1)

\* an opening run that no later run equals, though backticks follow
C18_WitnessNoMatch ==
    /\ inline.fn = "InlineCode"
    /\ OpeningRun(inline.arg) = 1
    /\ Count(inline.arg, BT) > 2
    /\ inline.out.match = NoMatch

\* the places in the text of the delimiter characters of a node
NodeMarks(node) ==
    (node.open..(node.open + node.len - 1)) \cup (node.close..(node.close + node.len - 1))

\* the places in the text that a match consumed
MatchPlaces(m) == m.at..(m.at + m.len - 1)

NodeTags == {"<i>", "<b>", "<u>", "<s>"}

IsInfix(part, whole) ==
    \E j \in 0..(Len(whole) - Len(part)) : SubSeq(whole, j + 1, j + Len(part)) = part

\* the text is \* followed by letters followed by \*
EscapedStars(text) ==
    /\ Len(text) >= 4
    /\ SubSeq(text, 1, 2) = <<"\\", "*">>
    /\ SubSeq(text, Len(text) - 1, Len(text)) = <<"\\", "*">>
    /\ \A j \in 3..(Len(text) - 2) : text[j] = "a"

\* C20: no character that the rule Escape or the rule InlineCode consumed
\* is a delimiter of a node: every node is made of delimiter characters
\* that no match rule consumed, the HTML holds one opening tag per node,
\* and the HTML of every match is part of the output.  A line of the form
\* \*text\* gives two escaped stars around the text and no node.
C20_MatchedDelimitersAreInert ==
    inline.fn = "formatInline" =>
        /\ \A node \in inline.out.nodes, m \in inline.out.matches :
                NodeMarks(node) \cap MatchPlaces(m) = {}
        /\ \A node \in inline.out.nodes : \A p \in NodeMarks(node) :
                inline.arg[p] \in DelimiterChars
        /\ Cardinality({j \in 1..Len(inline.out.html) : inline.out.html[j] \in NodeTags})
                = Cardinality(inline.out.nodes)
        /\ \A m \in inline.out.matches : IsInfix(m.html, inline.out.html)
        /\ EscapedStars(inline.arg) =>
                /\ inline.out.nodes = {}
                /\ inline.out.html =
                        EscapeReplace(<< <<"\\", "*">>, <<"*">> >>)
                        \o SubSeq(inline.arg, 3, Len(inline.arg) - 2)
                        \o EscapeReplace(<< <<"\\", "*">>, <<"*">> >>)

\* the line \*a\*
C20_Witness ==
    /\ inline.fn = "formatInline"
    /\ inline.arg = <<"\\", "*", "a", "\\", "*">>
    /\ inline.out.nodes = {}
    /\ Cardinality(inline.out.matches) = 2

\* a code span that holds *a*
C20_WitnessCode ==
    /\ inline.fn = "formatInline"
    /\ inline.arg = <<BT, "*", "a", "*", BT>>
    /\ inline.out.nodes = {}
    /\ \E m \in inline.out.matches : m.rule = "InlineCode" /\ m.len = 5

\* an emphasis node around an escaped star
C20_WitnessNode ==
    /\ inline.fn = "formatInline"
    /\ inline.arg = <<"*", "\\", "*", "*">>
    /\ inline.out.nodes = {[rule |-> "Emphasis", len |-> 1, open |-> 1, close |-> 4]}

(***************************************************************************)
(* Properties of the delimiter path of the inline formatter.               *)
(***************************************************************************)
\* the places in the text of the delimiters of all nodes
AllMarks(nodes) == UNION {NodeMarks(node) : node \in nodes}

NodeCloseTags == {"</i>", "</b>", "</u>", "</s>"}

TagOf(token) ==
    CASE token \in {"<i>", "</i>"} -> "i" [] token \in {"<b>", "</b>"} -> "b"
      [] token \in {"<u>", "</u>"} -> "u" [] token \in {"<s>", "</s>"} -> "s"

\* every node tag of html[i..] closes the last one still open, and none is
\* left open at the end
RECURSIVE WellNested(_, _, _)
WellNested(html, i, open) ==
    IF i > Len(html) THEN open = <<>>
    ELSE IF html[i] \in NodeTags THEN WellNested(html, i + 1, Append(open, TagOf(html[i])))
    ELSE IF html[i] \in NodeCloseTags
         THEN /\ open # <<>>
              /\ open[Len(open)] = TagOf(html[i])
              /\ WellNested(html, i + 1, SubSeq(open, 1, Len(open) - 1))
    ELSE WellNested(html, i + 1, open)

\* C21: when the line ends nothing is left on the stack: every delimiter
\* character that was pushed is a delimiter of a node or was written as
\* literal text, never both, and every node that was opened in the HTML is
\* closed in it.  A line without a node is its own text: *ab stays *ab.
C21_StackDrained ==
    inline.fn = "formatInline" =>
        /\ inline.out.stack = <<>>
        /\ inline.out.pushed \subseteq AllMarks(inline.out.nodes) \cup inline.out.flushed
        /\ AllMarks(inline.out.nodes) \cap inline.out.flushed = {}
        /\ WellNested(inline.out.html, 1, <<>>)
        /\ (inline.out.nodes = {} /\ inline.out.matches = {} /\ inline.arg # <<>>) =>
                inline.out.html = inline.arg

\* the line *ab: the star is pushed and comes back as literal text
C21_Witness ==
    /\ inline.fn = "formatInline"
    /\ inline.arg = <<"*", "a", "b">>
    /\ inline.out.pushed = {1}
    /\ inline.out.flushed = {1}
    /\ inline.out.html = <<"*", "a", "b">>

\* an opener of two stars of which a closer of one star uses one
C21_WitnessPartly ==
    /\ inline.fn = "formatInline"
    /\ inline.arg = <<"*", "*", "a", "*">>
    /\ inline.out.pushed = {1, 2}
    /\ inline.out.flushed = {1}
    /\ Cardinality(inline.out.nodes) = 1

MarkupTokens ==
    NodeTags \cup NodeCloseTags \cup
    {"<span class=\"md-mark\">", "</span>", "<span class=\"md-escape\">",
     "<code class=\"md-code\">", "</code>", "<br>"}

IsCharacter(token) == token \notin MarkupTokens
IsPlain(token) == token \notin MarkupTokens \cup DelimiterChars

\* the places in the text that the matches of rules consumed
AllMatched(matches) == UNION {MatchPlaces(m) : m \in matches}

C22_WitnessEscaped ==
    /\ inline.fn = "formatInline"
    /\ inline.arg = <<"*", "a", "*", "\\", "*">>
    /\ AllMarks(inline.out.nodes) = {1, 3}
    /\ AllMatched(inline.out.matches) = {4, 5}

BoldAndItalic ==
    <<"*", "*", "b", "o", "l", "d", "*", "*", " ", "a", "n", "d", " ",
      "*", "i", "t", "a", "l", "i", "c", "*">>

\* C23: a closer and an opener that both have two characters left make the
\* node of the rule of length 2: no two nodes of length 1 of the same
\* character lie directly inside one another, **bold** is one StrongEmphasis node, and
\* **bold** and *italic* is a StrongEmphasis node, the text " and " and an
\* Emphasis node.
C23_LongerRuleFirst ==
    inline.fn = "formatInline" =>
        /\ \A n1, n2 \in inline.out.nodes :
                ~(/\ n1.len = 1 /\ n2.len = 1
                  /\ inline.arg[n1.open] = inline.arg[n2.open]
                  /\ n2.open = n1.open - 1 /\ n2.close = n1.close + 1)
        /\ inline.arg = SubSeq(BoldAndItalic, 1, 8) =>
                inline.out.nodes =
                    {[rule |-> "StrongEmphasis", len |-> 2, open |-> 1, close |-> 7]}
        /\ inline.arg = BoldAndItalic =>
                inline.out.html =
                    inlineReplace("b", <<"*", "*">>, <<"b", "o", "l", "d">>)
                    \o <<" ", "a", "n", "d", " ">>
                    \o inlineReplace("i", <<"*">>, <<"i", "t", "a", "l", "i", "c">>)

\* the line **bold** and *italic*
C23_Witness ==
    /\ inline.fn = "formatInline"
    /\ inline.arg = BoldAndItalic
    /\ inline.out.nodes =
            {[rule |-> "StrongEmphasis", len |-> 2, open |-> 1, close |-> 7],
             [rule |-> "Emphasis", len |-> 1, open |-> 14, close |-> 21]}

\* a letter or a digit: neither white space nor punctuation
IsWord(ch) == ~IsWhitespace(ch) /\ ch \notin EscapePunct

\* every underscore of the text stands alone between two word characters
UnderscoresInWords(text) ==
    \A p \in 1..Len(text) :
        text[p] = "_" => IsWord(At(text, p - 2)) /\ IsWord(At(text, p))

\* C24: in a line whose underscores all stand alone between two word
\* characters no underscore is a delimiter of a node, every underscore is
\* literal text or part of a match of a rule, and a line without other delimiters has no node at all.
C24_UnderscoreInsideWord ==
    (inline.fn = "formatInline" /\ UnderscoresInWords(inline.arg)) =>
        /\ \A p \in 1..Len(inline.arg) :
                inline.arg[p] = "_" =>
                    /\ p \notin AllMarks(inline.out.nodes)
                    /\ p \notin inline.out.pushed
                    /\ p \in inline.out.flushed \cup AllMatched(inline.out.matches)
        /\ (\A p \in 1..Len(inline.arg) : inline.arg[p] \notin {"*", "~", "\\", BT}) =>
                /\ inline.out.nodes = {}
                /\ inline.out.html = fix(inline.arg)

\* the line snake_case_name
C24_Witness ==
    /\ inline.fn = "formatInline"
    /\ inline.arg = <<"s", "n", "a", "k", "e", "_", "c", "a", "s", "e", "_",
                      "n", "a", "m", "e">>
    /\ inline.out.flushed = {6, 11}
    /\ inline.out.nodes = {}

\* the places in the text from the first to the last delimiter of a node
NodeSpan(node) == node.open..(node.close + node.len - 1)

\* C25: of two nodes one lies inside the other or they do not share a
\* place, in the text and in the HTML; an opener that a closer skipped is
\* literal text and is the delimiter of no node.  In *a _b* c_ the stars
\* make a node and both underscores are literal.
C25_NodesNested ==
    inline.fn = "formatInline" =>
        /\ \A n1, n2 \in inline.out.nodes :
                \/ NodeSpan(n1) \cap NodeSpan(n2) = {}
                \/ NodeSpan(n1) \subseteq NodeSpan(n2)
                \/ NodeSpan(n2) \subseteq NodeSpan(n1)
        /\ \A node \in inline.out.nodes :
                \A p \in (inline.out.pushed \ AllMarks(inline.out.nodes)) \cap NodeSpan(node) :
                    p \in inline.out.flushed
        /\ WellNested(inline.out.html, 1, <<>>) /\ inline.out.stack = <<>>
        /\ inline.arg = <<"*", "a", " ", "_", "b", "*", " ", "c", "_">> =>
                /\ inline.out.nodes = {[rule |-> "Emphasis", len |-> 1, open |-> 1, close |-> 6]}
                /\ inline.out.flushed = {4, 9}

\* the line *a _b* c_
C25_Witness ==
    /\ inline.fn = "formatInline"
    /\ inline.arg = <<"*", "a", " ", "_", "b", "*", " ", "c", "_">>
    /\ inline.out.pushed = {1, 4}
    /\ inline.out.flushed = {4, 9}

(***************************************************************************)
(* Properties of Editor.lineAt on positions in range.                      *)
(***************************************************************************)
\* the position of the first character of the line with index n: the
\* lengths of the lines before it and one line break for each
StartOf(ls, n) == IF n = 0 THEN 0 ELSE TotalLength(SubSeq(ls, 1, n)) + 1

EndOf(ls, n) == StartOf(ls, n) + Len(ls[n + 1])

C27_WitnessNext ==
    /\ lookup.op = "lineAt"
    /\ Len(lines) >= 2
    /\ lookup.arg = EndOf(lines, 0) + 1
    /\ lookup.error = "none"
    /\ lookup.value[1].num = 1
    /\ lookup.value[1].from = lookup.arg

(***************************************************************************)
(* Properties of Editor.convertIndentation.                                *)
(***************************************************************************)
\* the text with every line break written as "\n"
RECURSIVE Normalised(_)
Normalised(text) ==
    IF text = <<>> THEN <<>>
    ELSE IF Len(text) >= 2 /\ text[1] = "\r" /\ text[2] = "\n"
         THEN <<"\n">> \o Normalised(SubSeq(text, 3, Len(text)))
    ELSE IF text[1] = "\r" THEN <<"\n">> \o Normalised(Tail(text))
    ELSE <<text[1]>> \o Normalised(Tail(text))

\* C29: with config.convertIndentation = false the call ends without an
\* error and returns the text with every line break written as "\n" and
\* every other character unchanged.
C29_IndentationKept ==
    (inline.fn = "convertIndentation" /\ ~inline.arg.convert) =>
        /\ inline.out.error = "none"
        /\ inline.out.value = Normalised(inline.arg.text)

(***************************************************************************)
(* Properties of the handler of Enter.                                     *)
(***************************************************************************)
\* the line of the caret: its index, its position and its text
CaretLine ==
    LET at == LineAtLoop(lines, state.selection.start, 0, 0)
    IN  [num |-> at.num, from |-> at.from, text |-> lines[at.num + 1],
         type |-> lineTypes[at.num + 1]]

\* the caret is collapsed in a line of an ordered list, at or after the
\* mark of the line, and the line has text after its mark
EnterInOrderedText ==
    /\ state.selection.start = state.selection.end
    /\ CaretLine.type = "OrderedList"
    /\ LET text == CaretLine.text
           own == RunLen(text, 0, Space) + Len(OrderedMark(text).num) + 2
       IN  /\ state.selection.start >= CaretLine.from + own
           /\ Len(text) > own

\* the lines after a new line with the next mark was opened at the caret
ContinuedList ==
    LET text == CaretLine.text
        cut == state.selection.start - CaretLine.from
        indent == SubSeq(text, 1, RunLen(text, 0, Space))
        next == ToDigits(ParseInt(OrderedMark(text).num) + 1) \o OrderedMark(text).mark
    IN  SubSeq(lines, 1, CaretLine.num)
        \o <<SubSeq(text, 1, cut), indent \o next \o From(text, cut)>>
        \o SubSeq(lines, CaretLine.num + 2, Len(lines))

\* C30: Enter with a collapsed caret at or after the mark of an ordered-list
\* line that has text after its mark opens a new line with the same
\* indentation and the mark of the next number and keeps the text of the
\* line, whatever the number is.
C30_OrderedListContinues ==
    [][(EnterInOrderedText /\ events'.handled = events.handled + 1)
        => lines' = ContinuedList]_vars

\* Enter was pressed at the end of the line "9. a"
C30_NineLost ==
    /\ events.handled = 1
    /\ undoStack[1].lines = << <<"9", ".", " ", "a">> >>
    /\ undoStack[1].selection = selectionFrom(4)
    /\ lines = << <<>> >>

\* Enter was pressed at the end of the line "1. a"
C30_OneContinued ==
    /\ events.handled = 1
    /\ undoStack[1].lines = << <<"1", ".", " ", "a">> >>
    /\ undoStack[1].selection = selectionFrom(4)
    /\ lines = << <<"1", ".", " ", "a">>, <<"2", ".", " ">> >>

(***************************************************************************)
(* Properties of the event handlers.                                       *)
(***************************************************************************)
\* the step delivers the event name to its handler
Delivers(name) == events'.count = events.count + 1 /\ events'.last = name

\* C28: between a compositionstart and its compositionend an input event
\* neither reads the content back nor renders it (lines, rendered lines and
\* history stay as they are) and a keydown event runs no keybind handler;
\* the compositionend event causes exactly one read-back and one rendering.
C28_CompositionDefersUpdate ==
    [][/\ (state.composing /\ (Delivers("input") \/ Delivers("keydown")))
          => /\ UNCHANGED <<lines, mdLines, lineTypes, undoStack, redoStack>>
             /\ events'.reads = events.reads
             /\ events'.renders = events.renders
             /\ events'.handled = events.handled
       /\ Delivers("compositionend")
          => /\ state.composing /\ ~state'.composing
             /\ events'.reads = events.reads + 1
             /\ events'.renders = events.renders + 1
             /\ lines' = updateLines(dom)
             /\ mdLines' = Fresh(lines').lines
             /\ Len(undoStack') = Len(undoStack) + 1]_vars

\* a composition ended: the one event during it was left alone and the
\* composed text was read back and rendered once
C28_Witness ==
    /\ events.last = "compositionend"
    /\ events.count = 3
    /\ events.ignored = 1
    /\ events.reads = 1
    /\ events.renders = 1
    /\ lines = << <<"a">> >>
    /\ Len(undoStack) = 2

\* an input event during a composition, the browser having written text
C28_WitnessInput ==
    /\ state.composing
    /\ events.last = "input"
    /\ events.ignored = 1
    /\ updateLines(dom) = << <<"a">> >>
    /\ lines = << <<>> >>

\* a keydown event during a composition
C28_WitnessKey ==
    /\ state.composing
    /\ events.last = "keydown"
    /\ events.ignored = 1
    /\ events.handled = 0

(***************************************************************************)
(* Properties of the parse that is followed statement by statement.        *)
(***************************************************************************)
\* the fields after the previous parse and after the whole new parse
WholeResults ==
    {run.prev, [lines |-> Fresh(run.input).lines, lineTypes |-> Fresh(run.input).lineTypes]}

\* C26: a reparse is atomic for every observer: a rule callback that reads
\* the parser during the parse, and a caller that reads it after a rule
\* raised an error, see the rendered lines and line types of the whole
\* previous parse or of the whole new one, never a part.
C26_ReparseAtomic ==
    /\ \A k \in 1..Len(run.seen) : run.seen[k] \in WholeResults
    /\ run.pc = "failed" => ParserFields \in WholeResults

\* the statements of a call that returns compute what parse computes
StepsAreParse ==
    run.pc = "done" => /\ mdLines = Fresh(run.input).lines
                       /\ lineTypes = Fresh(run.input).lineTypes
                       /\ openLog = Fresh(run.input).log

\* the callbacks of the second line of the second document saw one line
C26_WitnessPart ==
    /\ done = 2
    /\ run.pc = "done"
    /\ Len(run.input) = 2
    /\ Len(run.seen[2].lines) = 1
    /\ Len(run.prev.lines) = 1

(***************************************************************************)
(* Properties of the formatter on runs that no delimiter rule fits.        *)
(***************************************************************************)
\* every run of "~" in the text has one character
OnlySingleTildes(text) ==
    \A p \in 1..(Len(text) - 1) : ~(text[p] = "~" /\ text[p + 1] = "~")

TildePlaces(text) == {p \in 1..Len(text) : text[p] = "~"}

\* C39: the formatter ends and loses no text when a closing run finds an
\* opener of its character and no delimiter rule fits the remaining lengths:
\* a "~" of a line whose runs of "~" have one character is literal text and
\* no node is made of it, "~a~" and "~~a~" come out as they are, and every
\* "~" of every line is in a well nested node or in the literal text.
\* The call ends within two passes of its loops per character of the line
\* and makes at most one node per two delimiter characters.
C39_UnfittedRunIsLiteral ==
    inline.fn = "formatInline" =>
        /\ inline.out.steps <= 2 * Len(inline.arg)
        /\ 2 * Cardinality(inline.out.nodes) <= Len(inline.arg)
        /\ Count(inline.out.html, "~") = Count(inline.arg, "~")
        /\ TildePlaces(inline.arg) \subseteq
                AllMarks(inline.out.nodes) \cup inline.out.flushed
                \cup AllMatched(inline.out.matches)
        /\ WellNested(inline.out.html, 1, <<>>)
        /\ OnlySingleTildes(inline.arg) =>
            /\ \A node \in inline.out.nodes : node.rule # "Strikethrough"
            /\ TildePlaces(inline.arg) \subseteq
                    inline.out.flushed \cup AllMatched(inline.out.matches)
        /\ inline.arg \in {<<"~", "a", "~">>, <<"~", "~", "a", "~">>} =>
            /\ inline.out.html = inline.arg
            /\ inline.out.nodes = {}


\* the line ~a~ was formatted
C39_Witness ==
    /\ inline.fn = "formatInline"
    /\ inline.arg = <<"~", "a", "~">>
    /\ inline.out.pushed = {1}
    /\ inline.out.flushed = {1, 3}

\* the line ~~a~ was formatted
C39_WitnessLonger ==
    /\ inline.fn = "formatInline"
    /\ inline.arg = <<"~", "~", "a", "~">>
    /\ inline.out.flushed = {1, 2, 4}

(***************************************************************************)
(* Properties of the earlier updateDOM.                                    *)
(***************************************************************************)
\* C40: the earlier updateDOM satisfies the replay law for sequences of
\* different lengths: after removing the old range and inserting the new
\* one the children are exactly the new lines.
C40_RangeReplayLaw ==
    (inline.fn = "updateDOM" /\ Len(inline.arg.old) # Len(inline.arg.new))
        => inline.out = inline.arg.new

\* [x] -> [x, x, x, x] leaves three children
C40_AppendedLost ==
    /\ inline.fn = "updateDOM"
    /\ inline.arg.old = << <<"x">> >>
    /\ inline.arg.new = << <<"x">>, <<"x">>, <<"x">>, <<"x">> >>
    /\ inline.out = << <<"x">>, <<"x">>, <<"x">> >>

\* [x, y] -> [x] is replayed
C40_RemovedReplayed ==
    /\ inline.fn = "updateDOM"
    /\ inline.arg.old = << <<"x">>, <<"y">> >>
    /\ inline.arg.new = << <<"x">> >>
    /\ inline.out = inline.arg.new

(***************************************************************************)
(* Properties of the handler of Backspace.                                 *)
(***************************************************************************)
\* C38: Backspace with a collapsed caret at p > 0 removes, directly before
\* p, one character, or the whole mark of the quote or list line of p, or
\* one indentation level of spaces of the line of p; the only character of
\* another line that it removes is the line break directly before p, and at
\* the start of a line without indentation it removes exactly that line
\* break, with indentWithSpaces on or off.  At p = 0 it changes nothing.
C38_BackspaceRemoves ==
    inline.fn = "deleteBackward" =>
        LET ls == inline.arg.lines
            p == inline.arg.caret
            at == LineAtLoop(ls, p, 0, 0)
            text == ls[at.num + 1]
            col == p - at.from
            lineIndent == RunLen(text, 0, Space)
            gone == Len(Content(ls)) - Len(Content(inline.out.lines))
        IN  IF p = 0 THEN ~inline.out.updated /\ inline.out.lines = ls
            ELSE /\ inline.out.updated
                 /\ gone >= 1
                 /\ Content(inline.out.lines) = CutOut(Content(ls), p - gone, p)
                 /\ inline.out.selection = selectionFrom(p - gone)
                 /\ \/ gone = 1
                    \/ /\ col = QuoteListLength(text)
                       /\ gone = QuoteListLength(text) - lineIndent
                    \/ /\ gone = tabSize
                       /\ col <= lineIndent
                       /\ col >= tabSize
                       /\ \A k \in (col - tabSize + 1)..col : text[k] = " "
                 /\ gone > 1 => gone <= col
                 /\ (col = 0 /\ lineIndent = 0) => gone = 1

\* Backspace at the start of the second line of "ab", "ab" with
\* indentWithSpaces on leaves "aab"
C38_OtherLineCut ==
    /\ inline.fn = "deleteBackward"
    /\ inline.arg = [lines |-> << <<"a", "b">>, <<"a", "b">> >>, caret |-> 3,
                     indentWithSpaces |-> TRUE]
    /\ inline.out.lines = << <<"a", "a", "b">> >>

\* Backspace after the mark of "- a" removes the mark
C38_MarkRemoved ==
    /\ inline.fn = "deleteBackward"
    /\ inline.arg = [lines |-> << <<"-", " ", "a">> >>, caret |-> 2,
                     indentWithSpaces |-> FALSE]
    /\ inline.out.lines = << <<"a">> >>

(***************************************************************************)
(* Properties of insertAtSelection and of the setter of content.           *)
(***************************************************************************)
\* the text that a call stores: the argument after the conversion of the
\* line breaks and of the indentation
InsertedText == ConvertIndentationOf(inline.arg.text, TRUE).value

\* C37: after insertAtSelection(text) on the selection [s, e] the content
\* is the old content up to s, the inserted text T (text after conversion)
\* and the old content from e; the selection handed to updateDOM and the
\* one recorded in the pushed history entry are collapsed at s + length(T),
\* which is not beyond the content.  After an assignment to content the
\* recorded caret is at the end of the stored content.
C37_CaretAfterInserted ==
    /\ inline.fn = "insertAtSelection" =>
        LET old == Content(inline.arg.lines)
            s == inline.arg.selection.start
            e == inline.arg.selection.end
        IN  /\ Content(lines) = SubSeq(old, 1, s) \o InsertedText \o SubSeq(old, e + 1, Len(old))
            /\ inline.out.selection = selectionFrom(s + Len(InsertedText))
            /\ undoStack[Len(undoStack)] =
                   [lines |-> lines, selection |-> selectionFrom(s + Len(InsertedText))]
            /\ s + Len(InsertedText) <= Len(Content(lines))
    /\ inline.fn = "content" =>
        /\ Content(lines) = InsertedText
        /\ undoStack[Len(undoStack)] =
               [lines |-> lines, selection |-> selectionFrom(Len(Content(lines)))]

\* "\r\na" inserted at 0 in "xy" stores "\na" and records the caret at 3, behind the x
C37_CaretBehindNext ==
    /\ inline.fn = "insertAtSelection"
    /\ inline.arg.text = <<"\r", "\n", "a">>
    /\ inline.arg.selection = selectionFrom(0)
    /\ lines = << <<>>, <<"a", "x", "y">> >>
    /\ undoStack[Len(undoStack)].selection = selectionFrom(3)

\* "a" inserted over the selected "x" of "xy" stores "ay" and records the
\* caret at 1
C37_CaretAfterText ==
    /\ inline.fn = "insertAtSelection"
    /\ inline.arg.text = <<"a">>
    /\ inline.arg.selection = [start |-> 0, end |-> 1]
    /\ lines = << <<"a", "y">> >>
    /\ undoStack[Len(undoStack)].selection = selectionFrom(1)

(***************************************************************************)
(* Properties of undo and redo.                                            *)
(***************************************************************************)
Edits == {"insert", "tab", "checkbox"}

\* a stack without its top entry
Front(stack) == SubSeq(stack, 1, Len(stack) - 1)

\* the last operation was an undo or a redo that had an effect
TookBack == inline.fn = "undo" /\ Len(inline.arg.undoStack) >= 2
TookAgain == inline.fn = "redo" /\ inline.arg.redoStack # <<>>

\* the lines of the entries of a stack
LinesOf(stack) == [k \in 1..Len(stack) |-> stack[k].lines]

\* C32: no edit changes the lines stored in an entry that was in the history
\* before it, and an undo directly after an edit restores the lines that
\* were current before that edit.
C32_EntriesAreSnapshots ==
    /\ inline.fn \in Edits =>
        /\ Len(undoStack) = Len(inline.arg.undoStack) + 1
        /\ LinesOf(Front(undoStack)) = LinesOf(inline.arg.undoStack)
    /\ (TookBack /\ inline.arg.prevFn \in Edits) => lines = inline.arg.prevLines

\* insert, undo, Tab on the list item, undo: the lines are those after Tab
C32_EditNotUndone ==
    /\ TookBack
    /\ inline.arg.prevFn = "tab"
    /\ inline.arg.prevLines = << <<"-", " ", "[", " ", "]", " ", "a">> >>
    /\ lines = << <<"\t", "-", " ", "[", " ", "]", " ", "a">> >>

\* insert, then undo: the lines are those before the insertion
C32_EditUndone ==
    /\ TookBack
    /\ inline.arg.prevFn = "insert"
    /\ lines = inline.arg.prevLines
    /\ lines # inline.arg.lines

\* C33: the undo stack of a constructed editor holds at least one entry;
\* undo() with fewer than two entries and redo() with an empty redo stack
\* change neither the lines, nor the rendered lines, nor a stack.
C33_HistoryFloor ==
    /\ Len(undoStack) >= 1
    /\ ((inline.fn = "undo" /\ ~TookBack) \/ (inline.fn = "redo" /\ ~TookAgain)) =>
        /\ lines = inline.arg.lines
        /\ dom = inline.arg.dom
        /\ undoStack = inline.arg.undoStack
        /\ redoStack = inline.arg.redoStack

\* undo() was called on the single entry
C33_Witness ==
    /\ inline.fn = "undo"
    /\ Len(inline.arg.undoStack) = 1
    /\ undoStack = inline.arg.undoStack

\* redo() was called with an empty redo stack and two entries to undo
C33_WitnessRedo ==
    /\ inline.fn = "redo"
    /\ inline.arg.redoStack = <<>>
    /\ Len(undoStack) = 2

\* C34: an undo moves exactly the top entry of the undo stack to the redo
\* stack and a redo moves it back; after k undos and k redos with nothing
\* in between, the lines, the length of the undo stack and the redo stack
\* are those before the first of the k undos.
C34_UndoRedoInverse ==
    /\ TookBack =>
        /\ Len(undoStack) = Len(inline.arg.undoStack) - 1
        /\ redoStack = Append(inline.arg.redoStack, Top(inline.arg.undoStack))
        /\ lines = Top(undoStack).lines
    /\ TookAgain =>
        /\ Len(undoStack) = Len(inline.arg.undoStack) + 1
        /\ Top(undoStack) = Top(inline.arg.redoStack)
        /\ redoStack = Front(inline.arg.redoStack)
        /\ lines = Top(undoStack).lines
    /\ (TookAgain /\ inline.arg.back # <<>>) =>
        /\ lines = inline.arg.back[1].lines
        /\ Len(undoStack) = inline.arg.back[1].undoLength
        /\ redoStack = inline.arg.back[1].redoStack

\* two undos and two redos after two edits: the state before the first of
\* the undos is restored
C34_Witness ==
    /\ TookAgain
    /\ inline.arg.prevFn = "redo"
    /\ inline.arg.back # <<>>
    /\ inline.out = <<>>
    /\ Len(undoStack) = 3
    /\ redoStack = <<>>

\* the name of the last operation that changed the history
LastChange == IF inline.fn \in Edits THEN "edit"
              ELSE IF TookBack THEN "undo"
              ELSE IF TookAgain THEN "redo"
              ELSE inline.arg.changed

\* C35: an update that pushes an entry empties the redo stack, so the redo
\* stack holds entries only while the last operations that changed the
\* history were undos and redos; undo and redo push no new entry, the
\* entries of both stacks are as many as before, and they do not empty a
\* redo stack that holds more than the entry redone.
C35_PushEmptiesRedo ==
    /\ inline.fn \in Edits =>
        /\ redoStack = <<>>
        /\ Len(undoStack) = Len(inline.arg.undoStack) + 1
    /\ redoStack # <<>> => LastChange \in {"undo", "redo"}
    /\ (TookBack \/ TookAgain) =>
        Len(undoStack) + Len(redoStack)
            = Len(inline.arg.undoStack) + Len(inline.arg.redoStack)
    /\ TookBack => Front(redoStack) = inline.arg.redoStack
    /\ TookAgain => redoStack = Front(inline.arg.redoStack)

\* an edit after an undo: the redo stack had an entry and is empty
C35_Witness ==
    /\ inline.fn \in Edits
    /\ inline.arg.redoStack # <<>>
    /\ redoStack = <<>>

\* a redo that leaves an entry on the redo stack
C35_WitnessRedo ==
    /\ TookAgain
    /\ redoStack # <<>>

\* C36: undo and redo change no field of an entry, they move the top entry
\* from one stack to the other; the entry on top of the undo stack before
\* a redo has the same selection after it.
C36_EntriesUnchanged ==
    /\ TookBack =>
        /\ undoStack = Front(inline.arg.undoStack)
        /\ redoStack = Append(inline.arg.redoStack, Top(inline.arg.undoStack))
    /\ TookAgain =>
        /\ undoStack = Append(inline.arg.undoStack, Top(inline.arg.redoStack))
        /\ redoStack = Front(inline.arg.redoStack)

\* a redo wrote the selection of the entry that it restored into the entry
\* below it
C36_SelectionOverwritten ==
    /\ TookAgain
    /\ Len(undoStack) = 2
    /\ undoStack[1].lines = inline.arg.undoStack[1].lines
    /\ undoStack[1].selection # inline.arg.undoStack[1].selection
    /\ undoStack[1].selection = undoStack[2].selection

\* an undo that left every entry as it was
C36_UndoKeeps ==
    /\ TookBack
    /\ undoStack = Front(inline.arg.undoStack)

(***************************************************************************)
(* Properties of setup, destroy and the setter of readonly.                *)
(***************************************************************************)
\* a step in which the browser dispatches an event
Dispatches == events'.count = events.count + 1

\* a step in which a listener of the editor is called
Handles == events'.handled = events.handled + 1

\* what the editor holds: the lines, the rendered lines, the line
\* elements, the state with the selection and the history
Held == <<lines, mdLines, lineTypes, dom, state, undoStack, redoStack>>

\* C31: while readonly is set or after destroy() no listener is left, so
\* an event that is dispatched calls no handler and changes neither the
\* lines, nor the rendered lines, nor the state, nor the history; while
\* readonly is not set and the editor is not destroyed, an event of every
\* type of setup() calls exactly one handler, however often setup() ran.
C31_ReadonlyDetaches ==
    [][/\ (Dispatches /\ ~listening.contenteditable) =>
            /\ listening'.pending = <<>>
            /\ Held' = Held
       /\ (Dispatches /\ listening.contenteditable
               /\ (events'.last \in {"focus"} => listening.isFirefox)) =>
            Len(listening'.pending) = 1
       /\ Handles =>
            /\ listening.contenteditable
            /\ listening'.pending = <<>>
       /\ (listening'.listeners = <<>>) = ~listening'.contenteditable
       /\ listening'.readonly => listening'.listeners = <<>>]_vars

\* readonly was set to false twice on an editor that was set up, and an
\* event was handled once
C31_Witness ==
    /\ listening.changes = 2
    /\ listening.contenteditable
    /\ ~listening.readonly
    /\ Len(listening.listeners) = 9
    /\ events.count = 1
    /\ events.handled = 1
    /\ listening.pending = <<>>
    /\ Len(undoStack) = 2

\* an event was dispatched to an editor whose readonly is set
C31_WitnessReadonly ==
    /\ listening.readonly
    /\ listening.changes >= 1
    /\ events.count = 1
    /\ events.handled = 0
    /\ Len(undoStack) = 1

====
